---- MODULE Spec2Model ----
(***************************************************************************)
(* The self-learning answer-generation agent of backend/ai_agent.py:       *)
(* prompt guard, sliding-window rate limiter, backend gateway with         *)
(* retries, candidate fan-out, peer review and winner selection.           *)
(*                                                                         *)
(* Text is a sequence of one-character strings, so that length checks,     *)
(* whitespace stripping and pattern search are computed on the text        *)
(* itself.  Scores are integers counting tenths (9.0 is 90).  Time is an   *)
(* integer clock of seconds.                                               *)
(***************************************************************************)
EXTENDS Integers, Sequences, FiniteSets, TLC

VARIABLES
  api_key,              \* ModelConfig.api_key
  models,               \* ModelConfig.models
  num_candidates,       \* SelfLearningAIAgent.num_candidates
  circuit_state,        \* SelfLearningAIAgent.circuit_state
  request_timestamps,   \* SelfLearningAIAgent.request_timestamps
  quality_milestones,   \* SelfLearningAIAgent.quality_milestones
  now,                  \* the value the last time.time() returned
  pc,                   \* where the solve coroutine stands
  task,                 \* the argument of solve (a name of TaskText)
  start_time,           \* solve's start_time
  stage_calls,          \* the _call_openrouter coroutines of the running gather
  candidates,           \* what _generate_candidates returned
  review_replies,       \* what the review backend answers, per review call
  reviews,              \* what _peer_review returned to solve (line 365)
  result,               \* what solve returned (or the exception it let out)
  rounds,               \* number of solve calls made so far
  rl_calls,             \* the _check_rate_limit calls of the limiter harness
  applied,              \* the last call of the function harness: arguments and value
  solves,               \* the solve coroutines of the concurrency harness
  server                \* server.py: its two globals and the objects they made

vars == << api_key, models, num_candidates, circuit_state, request_timestamps,
           quality_milestones, now, pc, task, start_time, stage_calls,
           candidates, review_replies, reviews, result, rounds, rl_calls, applied,
           solves, server >>

----------------------------------------------------------------------------
(* Configuration.                                                          *)

\* SecurityConfig.max_prompt_length
max_prompt_length == 4096

\* SecurityConfig.rate_limit_requests, scaled down from 100 so that one or
\* two solve rounds exhaust the quota
rate_limit_requests == 3

\* SecurityConfig.rate_limit_window, scaled down from 60 seconds
rate_limit_window == 1

\* ModelConfig.max_retries as create_ai_agent sets it
max_retries == 3

\* the models create_ai_agent configures, and the review model
ALL_MODELS == << "gpt-4o", "claude-3-5-sonnet-20241022", "gemini-2.0-flash-exp" >>

review_model == "gpt-4o"

PLACEHOLDER_KEY == "your-openrouter-api-key-here"

\* Bounds of the model.
MaxTime == 1
MaxRounds == 2
MaxNumCandidates == 3
MaxRateCalls == 5

\* solve coroutines running at once on one agent (concurrency harness)
MaxConcurrent == 2

----------------------------------------------------------------------------
(* Text.                                                                   *)

UpperToLower ==
  [A |-> "a", B |-> "b", C |-> "c", D |-> "d", E |-> "e", F |-> "f", G |-> "g",
   H |-> "h", I |-> "i", J |-> "j", K |-> "k", L |-> "l", M |-> "m", N |-> "n",
   O |-> "o", P |-> "p", Q |-> "q", R |-> "r", S |-> "s", T |-> "t", U |-> "u",
   V |-> "v", W |-> "w", X |-> "x", Y |-> "y", Z |-> "z"]

\* case folding of one character, as (?i) compares
Lower(c) == IF c \in DOMAIN UpperToLower THEN UpperToLower[c] ELSE c

Whitespace == {" ", "\n", "\t", "\r", "\f"}

RECURSIVE LStrip(_)
LStrip(s) ==
  IF s # << >> /\ Head(s) \in Whitespace THEN LStrip(Tail(s)) ELSE s

RECURSIVE RStrip(_)
RStrip(s) ==
  IF s # << >> /\ s[Len(s)] \in Whitespace
    THEN RStrip(SubSeq(s, 1, Len(s) - 1))
    ELSE s

\* str.strip()
Strip(s) == RStrip(LStrip(s))

\* the literal lit stands in s at position i, ignoring case
MatchAt(lit, s, i) ==
  /\ i + Len(lit) - 1 <= Len(s)
  /\ \A k \in 1..Len(lit) : Lower(s[i + k - 1]) = lit[k]

\* re.search of a case-insensitive alternation of literals
Search(alternatives, s) ==
  \E i \in 1..Len(s) : \E lit \in alternatives : MatchAt(lit, s, i)

----------------------------------------------------------------------------
(* Prompt Guard.                                                           *)

suspicious_patterns ==
  << \* (?i)(sudo|rm -rf|chmod|passwd|ssh-key)
     { <<"s","u","d","o">>, <<"r","m"," ","-","r","f">>, <<"c","h","m","o","d">>,
       <<"p","a","s","s","w","d">>, <<"s","s","h","-","k","e","y">> },
     \* (?i)(import os|import subprocess|__import__)
     { <<"i","m","p","o","r","t"," ","o","s">>,
       <<"i","m","p","o","r","t"," ","s","u","b","p","r","o","c","e","s","s">>,
       <<"_","_","i","m","p","o","r","t","_","_">> },
     \* (?i)(system|exec|eval|compile|execfile)
     { <<"s","y","s","t","e","m">>, <<"e","x","e","c">>, <<"e","v","a","l">>,
       <<"c","o","m","p","i","l","e">>, <<"e","x","e","c","f","i","l","e">> },
     \* (?i)(\.\./|~/|/etc/|/bin/|/var/)
     { <<".",".","/">>, <<"~","/">>, <<"/","e","t","c","/">>,
       <<"/","b","i","n","/">>, <<"/","v","a","r","/">> } >>

Ok == [raised |-> FALSE]

Raise(type, msg) == [raised |-> TRUE, type |-> type, msg |-> msg]

\* _validate_prompt without the length test of lines 131-132
ValidatePromptAnyLength(prompt) ==
  IF \E p \in 1..Len(suspicious_patterns) :
        Search(suspicious_patterns[p], prompt)
    THEN Raise("PromptInjectionException", "Malicious pattern detected")
    ELSE Ok

\* _validate_prompt with the patterns matched without (?i)
ValidatePromptMatchingCase(prompt) ==
  IF Len(prompt) > max_prompt_length
    THEN Raise("PromptInjectionException", "Prompt too long")
    ELSE IF \E p \in 1..Len(suspicious_patterns) :
              \E i \in 1..Len(prompt) : \E lit \in suspicious_patterns[p] :
                /\ i + Len(lit) - 1 <= Len(prompt)
                /\ \A k \in 1..Len(lit) : prompt[i + k - 1] = lit[k]
           THEN Raise("PromptInjectionException", "Malicious pattern detected")
           ELSE Ok

\* _validate_prompt: Ok, or the exception it raises
ValidatePrompt(prompt) ==
  IF Len(prompt) > max_prompt_length
    THEN Raise("PromptInjectionException", "Prompt too long")
    ELSE IF \E p \in 1..Len(suspicious_patterns) :
               Search(suspicious_patterns[p], prompt)
           THEN Raise("PromptInjectionException", "Malicious pattern detected")
           ELSE Ok

\* _check_rate_limit that records the rejected calls too
CheckRateLimitCountsRejected(ts, t) ==
  LET pruned == SelectSeq(ts, LAMBDA x : t - x < rate_limit_window)
  IN  [raised |-> Len(pruned) >= rate_limit_requests,
       request_timestamps |-> Append(pruned, t)]

\* _check_rate_limit that admits without recording (line 152 left out)
CheckRateLimitForgets(ts, t) ==
  LET pruned == SelectSeq(ts, LAMBDA x : t - x < rate_limit_window)
  IN  IF Len(pruned) >= rate_limit_requests
        THEN [raised |-> TRUE, request_timestamps |-> pruned]
        ELSE [raised |-> FALSE, request_timestamps |-> pruned]

\* _check_rate_limit that never drops an old timestamp (line 146 left out)
CheckRateLimitUnpruned(ts, t) ==
  IF Len(ts) >= rate_limit_requests
    THEN [raised |-> TRUE, request_timestamps |-> ts]
    ELSE [raised |-> FALSE, request_timestamps |-> Append(ts, t)]

\* _check_rate_limit with ">" for the ">=" of line 148
CheckRateLimitOneMore(ts, t) ==
  LET pruned == SelectSeq(ts, LAMBDA x : t - x < rate_limit_window)
  IN  IF Len(pruned) > rate_limit_requests
        THEN [raised |-> TRUE, request_timestamps |-> pruned]
        ELSE [raised |-> FALSE, request_timestamps |-> Append(pruned, t)]

\* _check_rate_limit recording a timestamp for the call and one for its
\* first request
CheckRateLimitTwice(ts, t) ==
  LET pruned == SelectSeq(ts, LAMBDA x : t - x < rate_limit_window)
  IN  IF Len(pruned) >= rate_limit_requests
        THEN [raised |-> TRUE, request_timestamps |-> pruned]
        ELSE [raised |-> FALSE, request_timestamps |-> Append(Append(pruned, t), t)]

\* _check_rate_limit at time t on the window ts: the window it leaves, and
\* whether it raised
CheckRateLimitAt(ts, t) ==
  LET pruned == SelectSeq(ts, LAMBDA x : t - x < rate_limit_window)
  IN  IF Len(pruned) >= rate_limit_requests
        THEN [raised |-> TRUE, request_timestamps |-> pruned]
        ELSE [raised |-> FALSE, request_timestamps |-> Append(pruned, t)]

----------------------------------------------------------------------------
(* Prompts.                                                                *)

\* the generation template before {task} (83 characters):
\*   | You are a specialist AI competing to provide the BEST solution. Solve rigorously:
\*   | 
\*   | 
GenerationHead ==
  <<
    "Y", "o", "u", " ", "a", "r", "e", " ", "a", " ", "s", "p", "e", "c",
    "i", "a", "l", "i", "s", "t", " ", "A", "I", " ", "c", "o", "m", "p",
    "e", "t", "i", "n", "g", " ", "t", "o", " ", "p", "r", "o", "v", "i",
    "d", "e", " ", "t", "h", "e", " ", "B", "E", "S", "T", " ", "s", "o",
    "l", "u", "t", "i", "o", "n", ".", " ", "S", "o", "l", "v", "e", " ",
    "r", "i", "g", "o", "r", "o", "u", "s", "l", "y", ":", "\n", "\n" >>

\* the generation template after {task} (297 characters):
\*   | 
\*   | 
\*   | Requirements:
\*   | - Provide factual, accurate information
\*   | - Use logical reasoning with clear steps
\*   | - Offer novel insights beyond obvious answers
\*   | - Be concise but comprehensive
\*   | - Include actionable implementation details
\*   | 
\*   | Your solution will be peer-reviewed against other AIs. The best solution wins.
GenerationTail ==
  <<
    "\n", "\n", "R", "e", "q", "u", "i", "r", "e", "m", "e", "n", "t", "s",
    ":", "\n", "-", " ", "P", "r", "o", "v", "i", "d", "e", " ", "f", "a",
    "c", "t", "u", "a", "l", ",", " ", "a", "c", "c", "u", "r", "a", "t",
    "e", " ", "i", "n", "f", "o", "r", "m", "a", "t", "i", "o", "n", "\n",
    "-", " ", "U", "s", "e", " ", "l", "o", "g", "i", "c", "a", "l", " ",
    "r", "e", "a", "s", "o", "n", "i", "n", "g", " ", "w", "i", "t", "h",
    " ", "c", "l", "e", "a", "r", " ", "s", "t", "e", "p", "s", "\n", "-",
    " ", "O", "f", "f", "e", "r", " ", "n", "o", "v", "e", "l", " ", "i",
    "n", "s", "i", "g", "h", "t", "s", " ", "b", "e", "y", "o", "n", "d",
    " ", "o", "b", "v", "i", "o", "u", "s", " ", "a", "n", "s", "w", "e",
    "r", "s", "\n", "-", " ", "B", "e", " ", "c", "o", "n", "c", "i", "s",
    "e", " ", "b", "u", "t", " ", "c", "o", "m", "p", "r", "e", "h", "e",
    "n", "s", "i", "v", "e", "\n", "-", " ", "I", "n", "c", "l", "u", "d",
    "e", " ", "a", "c", "t", "i", "o", "n", "a", "b", "l", "e", " ", "i",
    "m", "p", "l", "e", "m", "e", "n", "t", "a", "t", "i", "o", "n", " ",
    "d", "e", "t", "a", "i", "l", "s", "\n", "\n", "Y", "o", "u", "r", " ",
    "s", "o", "l", "u", "t", "i", "o", "n", " ", "w", "i", "l", "l", " ",
    "b", "e", " ", "p", "e", "e", "r", "-", "r", "e", "v", "i", "e", "w",
    "e", "d", " ", "a", "g", "a", "i", "n", "s", "t", " ", "o", "t", "h",
    "e", "r", " ", "A", "I", "s", ".", " ", "T", "h", "e", " ", "b", "e",
    "s", "t", " ", "s", "o", "l", "u", "t", "i", "o", "n", " ", "w", "i",
    "n", "s", "." >>

\* the review template before {task} (6 characters):
\*   | TASK: 
ReviewHead ==
  <<
    "T", "A", "S", "K", ":", " " >>

\* the review template between {task} and {solution} (22 characters):
\*   | 
\*   | 
\*   | CANDIDATE SOLUTION:
\*   | 
ReviewMiddle ==
  <<
    "\n", "\n", "C", "A", "N", "D", "I", "D", "A", "T", "E", " ", "S", "O",
    "L", "U", "T", "I", "O", "N", ":", "\n" >>

\* the review template after {solution} (600 characters):
\*   | 
\*   | 
\*   | Apply THIS scoring rubric rigorously:
\*   | 
\*   | 1. Factual Accuracy (0-10): Verify all facts. Deduct for errors.
\*   | 2. Reasoning Depth (0-10): Evaluate logical completeness.
\*   | 3. Novelty/Value (0-10): Assess originality.
\*   | 4. Conciseness (0-10): Evaluate clarity and implementability.
\*   | 
\*   | SCORING FORMULA: Weighted average (Accuracy:40%, Depth:30%, Novelty:20%, Conciseness:10%)
\*   | 
\*   | CRITICAL FLAW: Identify ONE major flaw or "NONE" if perfect.
\*   | IMPROVED SOLUTION: Rewrite addressing the flaw.
\*   | 
\*   | Respond ONLY with valid JSON:
\*   | {
\*   |   "score": X.X,
\*   |   "flaw": "specific flaw or NONE",
\*   |   "improved": "complete improved solution"
\*   | }
ReviewTail ==
  <<
    "\n", "\n", "A", "p", "p", "l", "y", " ", "T", "H", "I", "S", " ", "s",
    "c", "o", "r", "i", "n", "g", " ", "r", "u", "b", "r", "i", "c", " ",
    "r", "i", "g", "o", "r", "o", "u", "s", "l", "y", ":", "\n", "\n", "1",
    ".", " ", "F", "a", "c", "t", "u", "a", "l", " ", "A", "c", "c", "u",
    "r", "a", "c", "y", " ", "(", "0", "-", "1", "0", ")", ":", " ", "V",
    "e", "r", "i", "f", "y", " ", "a", "l", "l", " ", "f", "a", "c", "t",
    "s", ".", " ", "D", "e", "d", "u", "c", "t", " ", "f", "o", "r", " ",
    "e", "r", "r", "o", "r", "s", ".", "\n", "2", ".", " ", "R", "e", "a",
    "s", "o", "n", "i", "n", "g", " ", "D", "e", "p", "t", "h", " ", "(",
    "0", "-", "1", "0", ")", ":", " ", "E", "v", "a", "l", "u", "a", "t",
    "e", " ", "l", "o", "g", "i", "c", "a", "l", " ", "c", "o", "m", "p",
    "l", "e", "t", "e", "n", "e", "s", "s", ".", "\n", "3", ".", " ", "N",
    "o", "v", "e", "l", "t", "y", "/", "V", "a", "l", "u", "e", " ", "(",
    "0", "-", "1", "0", ")", ":", " ", "A", "s", "s", "e", "s", "s", " ",
    "o", "r", "i", "g", "i", "n", "a", "l", "i", "t", "y", ".", "\n", "4",
    ".", " ", "C", "o", "n", "c", "i", "s", "e", "n", "e", "s", "s", " ",
    "(", "0", "-", "1", "0", ")", ":", " ", "E", "v", "a", "l", "u", "a",
    "t", "e", " ", "c", "l", "a", "r", "i", "t", "y", " ", "a", "n", "d",
    " ", "i", "m", "p", "l", "e", "m", "e", "n", "t", "a", "b", "i", "l",
    "i", "t", "y", ".", "\n", "\n", "S", "C", "O", "R", "I", "N", "G", " ",
    "F", "O", "R", "M", "U", "L", "A", ":", " ", "W", "e", "i", "g", "h",
    "t", "e", "d", " ", "a", "v", "e", "r", "a", "g", "e", " ", "(", "A",
    "c", "c", "u", "r", "a", "c", "y", ":", "4", "0", "%", ",", " ", "D",
    "e", "p", "t", "h", ":", "3", "0", "%", ",", " ", "N", "o", "v", "e",
    "l", "t", "y", ":", "2", "0", "%", ",", " ", "C", "o", "n", "c", "i",
    "s", "e", "n", "e", "s", "s", ":", "1", "0", "%", ")", "\n", "\n", "C",
    "R", "I", "T", "I", "C", "A", "L", " ", "F", "L", "A", "W", ":", " ",
    "I", "d", "e", "n", "t", "i", "f", "y", " ", "O", "N", "E", " ", "m",
    "a", "j", "o", "r", " ", "f", "l", "a", "w", " ", "o", "r", " ", "\"",
    "N", "O", "N", "E", "\"", " ", "i", "f", " ", "p", "e", "r", "f", "e",
    "c", "t", ".", "\n", "I", "M", "P", "R", "O", "V", "E", "D", " ", "S",
    "O", "L", "U", "T", "I", "O", "N", ":", " ", "R", "e", "w", "r", "i",
    "t", "e", " ", "a", "d", "d", "r", "e", "s", "s", "i", "n", "g", " ",
    "t", "h", "e", " ", "f", "l", "a", "w", ".", "\n", "\n", "R", "e", "s",
    "p", "o", "n", "d", " ", "O", "N", "L", "Y", " ", "w", "i", "t", "h",
    " ", "v", "a", "l", "i", "d", " ", "J", "S", "O", "N", ":", "\n", "{",
    "\n", " ", " ", "\"", "s", "c", "o", "r", "e", "\"", ":", " ", "X", ".",
    "X", ",", "\n", " ", " ", "\"", "f", "l", "a", "w", "\"", ":", " ", "\"",
    "s", "p", "e", "c", "i", "f", "i", "c", " ", "f", "l", "a", "w", " ",
    "o", "r", " ", "N", "O", "N", "E", "\"", ",", "\n", " ", " ", "\"", "i",
    "m", "p", "r", "o", "v", "e", "d", "\"", ":", " ", "\"", "c", "o", "m",
    "p", "l", "e", "t", "e", " ", "i", "m", "p", "r", "o", "v", "e", "d",
    " ", "s", "o", "l", "u", "t", "i", "o", "n", "\"", "\n", "}" >>
\* _build_generation_prompt
BuildGenerationPrompt(task_text) == GenerationHead \o task_text \o GenerationTail

\* _build_review_prompt
BuildReviewPrompt(task_text, solution) ==
  ReviewHead \o task_text \o ReviewMiddle \o solution \o ReviewTail

\* The tasks solve is called with, by name: a harmless one, one holding a
\* suspicious token in mixed case, one that makes the generation prompt
\* exactly max_prompt_length long and one that makes it one longer.
TaskText ==
  [ plain  |-> <<"h","i">>,
    sudo   |-> <<"S","u","D","o"," ","l","s">>,
    limit  |-> [i \in 1..(max_prompt_length - Len(GenerationHead) - Len(GenerationTail)) |-> "a"],
    long   |-> [i \in 1..(max_prompt_length - Len(GenerationHead) - Len(GenerationTail) + 1) |-> "a"] ]

TaskNames == DOMAIN TaskText

\* A prompt is kept as the arguments it was built from; PromptText is the
\* string the builder returned.
GenerationPrompt(t) == [kind |-> "generation", task |-> t]

ReviewPrompt(t, solution) == [kind |-> "review", task |-> t, solution |-> solution]

PromptText(p) ==
  IF p.kind = "generation"
    THEN BuildGenerationPrompt(TaskText[p.task])
    ELSE BuildReviewPrompt(TaskText[p.task], p.solution)

\* message.content of the HTTP 200 answers of the generation backends:
\* each backend has an answer of its own (two of them of the same length),
\* and any of them may answer with whitespace only
BackendAnswer ==
  [m \in {ALL_MODELS[i] : i \in 1..Len(ALL_MODELS)} |->
     CASE m = ALL_MODELS[1] -> <<"a">>
       [] m = ALL_MODELS[2] -> <<" ","b","b","\n">>
       [] OTHER -> <<"c">>]

BlankAnswer == <<" ","\n">>

RawTexts == {BackendAnswer[m] : m \in DOMAIN BackendAnswer} \cup {BlankAnswer}

\* every prompt a coroutine of the model is given
Prompts ==
  {GenerationPrompt(t) : t \in TaskNames}
    \cup {ReviewPrompt(t, Strip(x)) : t \in TaskNames, x \in RawTexts}

\* _validate_prompt on each of them, computed once
PromptVerdict == [p \in Prompts |-> ValidatePrompt(PromptText(p))]

----------------------------------------------------------------------------
(* Backend Gateway: one _call_openrouter coroutine.                        *)

NoResult == [pending |-> TRUE]

\* a coroutine gather has created and not yet run
NewCall(model, prompt) ==
  [ model |-> model, prompt |-> prompt, pc |-> "created", attempt |-> 0,
    posts |-> 0, checked |-> FALSE, validated |-> FALSE, result |-> NoResult ]

\* the call c is over, returning or raising r
Finish(c, r) == [c EXCEPT !.pc = "done", !.attempt = 0, !.posts = 0, !.result = r]

\* the dict of line 219
Success(c, content) ==
  [raised |-> FALSE, text |-> Strip(content), model |-> c.model, request_id |-> "unknown"]

\* the dict of line 240
AllRetriesFailed(c) ==
  [raised |-> FALSE, text |-> << >>, model |-> c.model, error |-> "All retries failed"]

\* "while True" for the "for attempt in range(max_retries)" of line 183
NextAttemptUnbounded(c) ==
  [c EXCEPT !.attempt = @ + 1, !.posts = @ + 1]

\* session.post of the loop's next iteration, or the end of the loop
NextAttempt(c) ==
  IF c.attempt + 1 < max_retries
    THEN [c EXCEPT !.attempt = @ + 1, !.posts = @ + 1]
    ELSE Finish(c, AllRetriesFailed(c))

\* "if attempt == max_retries - 1: raise", else sleep and go round the loop
RaiseOrRetry(c, exc) ==
  IF c.attempt = max_retries - 1 THEN Finish(c, exc) ELSE NextAttempt(c)

\* lines 162-190 with _validate_prompt called before _check_rate_limit
CallEnterValidatesFirst(c, window, t) ==
  LET rl == CheckRateLimitAt(window, t)
      v  == PromptVerdict[c.prompt]
  IN  IF v.raised
        THEN Finish(c, v)
        ELSE IF rl.raised
          THEN Finish([c EXCEPT !.validated = TRUE],
                      Raise("SecurityException", "Rate limit exceeded"))
          ELSE IF max_retries > 0
            THEN [c EXCEPT !.checked = TRUE, !.validated = TRUE,
                           !.pc = "http", !.attempt = 0, !.posts = 1]
            ELSE Finish([c EXCEPT !.checked = TRUE, !.validated = TRUE],
                        AllRetriesFailed(c))

\* lines 162-190: the rate limit, the validation, and the first request
CallEnter(c, window, t) ==
  LET rl == CheckRateLimitAt(window, t)
      v  == PromptVerdict[c.prompt]
  IN  IF rl.raised
        THEN Finish(c, Raise("SecurityException", "Rate limit exceeded"))
        ELSE IF v.raised
          THEN Finish([c EXCEPT !.checked = TRUE], v)
          ELSE IF max_retries > 0
            THEN [c EXCEPT !.checked = TRUE, !.validated = TRUE,
                           !.pc = "http", !.attempt = 0, !.posts = 1]
            ELSE Finish([c EXCEPT !.checked = TRUE, !.validated = TRUE],
                        AllRetriesFailed(c))

\* HTTP 429 handled as the other statuses are: raised on the last attempt
On429Raises(c) == RaiseOrRetry(c, Raise("ClientError", "HTTP 429"))

\* lines 192-197: HTTP 429
On429(c) == NextAttempt(c)

\* lines 199-207: another status than 200 and 429
OnErrorStatus(c) == RaiseOrRetry(c, Raise("ClientError", "HTTP 500"))

\* lines 211-215 and 233-238: HTTP 200 without choices; the ValueError is
\* raised inside the try and caught by "except Exception"
OnMalformed(c) == RaiseOrRetry(c, Raise("ValueError", "Invalid model response format"))

\* a timeout handled as HTTP 429 is: nothing raised on the last attempt
OnTimeoutReturnsEmpty(c) == NextAttempt(c)

\* lines 225-231: the request timed out
OnTimeout(c) == RaiseOrRetry(c, Raise("TimeoutError", ""))

\* lines 209-223: HTTP 200 with choices[0].message.content
OnSuccess(c, content) == Finish(c, Success(c, content))

----------------------------------------------------------------------------
(* Review responses.  A parsed JSON value carries its type: a number (in   *)
(* tenths), a string, or null; a Python dict is a function from keys.      *)

Num(n) == [t |-> "num", v |-> n]

Str(s) == [t |-> "str", v |-> s]

Null == [t |-> "null"]

\* dict.get(key, default)
Get(d, key, default) == IF key \in DOMAIN d THEN d[key] ELSE default

Digits == {"0", "1", "2", "3", "4", "5", "6", "7", "8", "9"}

DigitValue ==
  [c \in Digits |->
     CASE c = "0" -> 0 [] c = "1" -> 1 [] c = "2" -> 2 [] c = "3" -> 3
       [] c = "4" -> 4 [] c = "5" -> 5 [] c = "6" -> 6 [] c = "7" -> 7
       [] c = "8" -> 8 [] c = "9" -> 9]

\* the literal lit stands in s at position i (case matters)
LitAt(lit, s, i) ==
  /\ i + Len(lit) - 1 <= Len(s)
  /\ \A k \in 1..Len(lit) : s[i + k - 1] = lit[k]

\* first position from i on whose character is not in cs (Len(s)+1 if none)
RECURSIVE SkipWhile(_, _, _)
SkipWhile(cs, s, i) ==
  IF i <= Len(s) /\ s[i] \in cs THEN SkipWhile(cs, s, i + 1) ELSE i

\* first position from i on whose character is c (0 if none)
RECURSIVE FindChar(_, _, _)
FindChar(c, s, i) ==
  IF i > Len(s) THEN 0 ELSE IF s[i] = c THEN i ELSE FindChar(c, s, i + 1)

\* value in tenths of the decimal digits s[i..j-1]
RECURSIVE IntOf(_, _, _, _)
IntOf(s, i, j, acc) ==
  IF i >= j THEN acc ELSE IntOf(s, i + 1, j, 10 * acc + DigitValue[s[i]])

\* float() of the digits s[i..j-1], an optional "." and the digits after
\* it up to k-1, in tenths (digits after the first decimal are dropped)
DecimalOf(s, i, j, k) ==
  10 * IntOf(s, i, j, 0) + (IF j + 1 < k THEN DigitValue[s[j + 1]] ELSE 0)

JsonWhitespace == {" ", "\n", "\t", "\r"}

RegexWhitespace == {" ", "\n", "\t", "\r", "\f"}

JsonFail == [ok |-> FALSE]

\* The keys the agent ever reads or writes; json.loads keeps every key, the
\* others are never looked at and are left out of the dict.
KeyName(chars) ==
  CASE chars = <<"s","c","o","r","e">> -> "score"
    [] chars = <<"f","l","a","w">> -> "flaw"
    [] chars = <<"i","m","p","r","o","v","e","d">> -> "improved"
    [] chars = <<"o","r","i","g","i","n","a","l">> -> "original"
    [] chars = <<"m","o","d","e","l">> -> "model"
    [] chars = <<"r","e","v","i","e","w","e","r">> -> "reviewer"
    [] OTHER -> "other"

EmptyDict == [k \in {} |-> Null]

\* d[key] = val, for the keys the agent looks at
Put(d, chars, val) ==
  IF KeyName(chars) = "other" THEN d ELSE (KeyName(chars) :> val) @@ d

\* a JSON string starting at the quote s[i]; raw control characters end the
\* parse as json.loads (strict) does.  Backslash escapes are not modelled:
\* no response of the model holds a backslash.
JsonString(s, i) ==
  LET j == FindChar("\"", s, i + 1)
  IN  IF j = 0 \/ \E k \in (i + 1)..(j - 1) : s[k] \in {"\n", "\t", "\r", "\f", "\\"}
        THEN JsonFail
        ELSE [ok |-> TRUE, next |-> j + 1, val |-> Str(SubSeq(s, i + 1, j - 1))]

\* a JSON number starting at s[i] (no exponent: no response holds one)
JsonNumber(s, i) ==
  LET neg  == s[i] = "-"
      a    == IF neg THEN i + 1 ELSE i
      b    == SkipWhile(Digits, s, a)
      frac == b <= Len(s) /\ s[b] = "."
      c    == IF frac THEN SkipWhile(Digits, s, b + 1) ELSE b
  IN  IF b = a \/ (b - a > 1 /\ s[a] = "0") \/ (frac /\ c = b + 1)
        THEN JsonFail
        ELSE [ok |-> TRUE, next |-> c,
              val |-> Num((IF neg THEN -1 ELSE 1) * DecimalOf(s, a, b, c))]

\* a JSON value starting at s[i]: a string, a number or null (the responses
\* of the model hold no nested object, array or boolean)
JsonValue(s, i) ==
  IF i > Len(s) THEN JsonFail
  ELSE IF s[i] = "\"" THEN JsonString(s, i)
  ELSE IF LitAt(<<"n","u","l","l">>, s, i)
    THEN [ok |-> TRUE, next |-> i + 4, val |-> Null]
  ELSE IF s[i] \in Digits \cup {"-"} THEN JsonNumber(s, i)
  ELSE JsonFail

\* the members of an object from the key at s[i] on, added to d; the
\* closing brace must be the last character
RECURSIVE JsonMembers(_, _, _)
JsonMembers(s, i, d) ==
  LET k == JsonString(s, i)
      c == SkipWhile(JsonWhitespace, s, k.next)
      v == JsonValue(s, SkipWhile(JsonWhitespace, s, c + 1))
      e == SkipWhile(JsonWhitespace, s, v.next)
  IN  IF i > Len(s) \/ s[i] # "\"" THEN JsonFail
      ELSE IF ~k.ok THEN JsonFail
      ELSE IF c > Len(s) \/ s[c] # ":" THEN JsonFail
      ELSE IF ~v.ok THEN JsonFail
      ELSE IF e > Len(s) THEN JsonFail
      ELSE IF s[e] = ","
        THEN JsonMembers(s, SkipWhile(JsonWhitespace, s, e + 1), Put(d, k.val.v, v.val))
      ELSE IF s[e] = "}" /\ e = Len(s)
        THEN [ok |-> TRUE, val |-> Put(d, k.val.v, v.val)]
      ELSE JsonFail

\* json.loads of a text that starts with "{" and ends with "}"
JsonLoads(s) ==
  LET i == SkipWhile(JsonWhitespace, s, 2)
  IN  IF s[i] = "}"
        THEN IF i = Len(s) THEN [ok |-> TRUE, val |-> EmptyDict] ELSE JsonFail
        ELSE JsonMembers(s, i, EmptyDict)

\* the least member of a non-empty set of positions
First(S) == CHOOSE i \in S : \A j \in S : i <= j

\* re.search(r'\{.*\}', text, re.DOTALL): from the first "{" to the last "}"
JsonMatch(s) ==
  LET opens  == {i \in 1..Len(s) : s[i] = "{"}
      closes == {i \in 1..Len(s) : s[i] = "}"}
      last   == CHOOSE i \in closes : \A j \in closes : j <= i
  IN  IF opens = {} \/ closes = {} THEN [found |-> FALSE]
      ELSE IF First(opens) > last THEN [found |-> FALSE]
      ELSE [found |-> TRUE, group |-> SubSeq(s, First(opens), last)]

ScoreKey == <<"\"","s","c","o","r","e","\"",":">>

FlawKey == <<"\"","f","l","a","w","\"",":">>

ImprovedKey == <<"\"","i","m","p","r","o","v","e","d","\"",":">>

\* where the value starts after the key standing at s[i] and \s*
AfterKey(key, s, i) == SkipWhile(RegexWhitespace, s, i + Len(key))

\* re.search(r'"score":\s*(\d+\.?\d*)', text): float(group(1)), else 5.0
ScoreOrDefault(s) ==
  LET hits == {i \in 1..Len(s) :
                 /\ LitAt(ScoreKey, s, i)
                 /\ AfterKey(ScoreKey, s, i) <= Len(s)
                 /\ s[AfterKey(ScoreKey, s, i)] \in Digits}
      a == AfterKey(ScoreKey, s, First(hits))
      b == SkipWhile(Digits, s, a)
      c == IF b <= Len(s) /\ s[b] = "." THEN SkipWhile(Digits, s, b + 1) ELSE b
  IN  IF hits = {} THEN Num(50) ELSE Num(DecimalOf(s, a, b, c))

\* re.search(r'"<key>":\s*"([^"]*)"', text): group(1), else the default
QuotedOrDefault(key, s, default) ==
  LET hits == {i \in 1..Len(s) :
                 /\ LitAt(key, s, i)
                 /\ AfterKey(key, s, i) <= Len(s)
                 /\ s[AfterKey(key, s, i)] = "\""
                 /\ FindChar("\"", s, AfterKey(key, s, i) + 1) # 0}
      a == AfterKey(key, s, First(hits))
  IN  IF hits = {} THEN default
      ELSE Str(SubSeq(s, a + 1, FindChar("\"", s, a + 1) - 1))

\* _parse_review_response giving a parsed object the defaults as well
ParseReviewResponseFilled(response_text) ==
  LET json_match == JsonMatch(response_text)
      loaded == JsonLoads(json_match.group)
      found == [ score    |-> ScoreOrDefault(response_text),
                 flaw     |-> QuotedOrDefault(FlawKey, response_text, Str(<<"N","O","N","E">>)),
                 improved |-> QuotedOrDefault(ImprovedKey, response_text, Str(<< >>)) ]
  IN  IF json_match.found /\ loaded.ok THEN loaded.val @@ found ELSE found

\* _parse_review_response
ParseReviewResponse(response_text) ==
  LET json_match == JsonMatch(response_text)
      loaded == JsonLoads(json_match.group)
  IN  IF json_match.found /\ loaded.ok
        THEN loaded.val
        ELSE [ score    |-> ScoreOrDefault(response_text),
               flaw     |-> QuotedOrDefault(FlawKey, response_text, Str(<<"N","O","N","E">>)),
               improved |-> QuotedOrDefault(ImprovedKey, response_text, Str(<< >>)) ]

\* _validate_review_scores accepting every number
ValidateAnyNumber(review_data) ==
  LET score == Get(review_data, "score", Num(0))
  IN  IF score.t = "num"
        THEN [raised |-> FALSE, valid |-> TRUE]
        ELSE Raise("TypeError",
                   IF score.t = "null"
                     THEN "'<=' not supported between instances of 'int' and 'NoneType'"
                     ELSE "'<=' not supported between instances of 'int' and 'str'")

\* _validate_review_scores: whether the score is accepted, or the TypeError
\* that comparing a string or None with 0 raises
ValidateReviewScores(review_data) ==
  LET score == Get(review_data, "score", Num(0))
  IN  IF score.t = "num"
        THEN [raised |-> FALSE, valid |-> 0 <= score.v /\ score.v <= 100]
        ELSE Raise("TypeError",
                   IF score.t = "null"
                     THEN "'<=' not supported between instances of 'int' and 'NoneType'"
                     ELSE "'<=' not supported between instances of 'int' and 'str'")

----------------------------------------------------------------------------
(* Candidate Orchestrator and Peer Reviewer.                               *)

\* _get_active_models keeping the models whose circuit is open
GetOpenModels(ms, cs) ==
  SelectSeq(ms, LAMBDA m : (IF m \in DOMAIN cs THEN cs[m] ELSE "closed") = "open")

\* _get_active_models
GetActiveModels(ms, cs) ==
  SelectSeq(ms, LAMBDA m : (IF m \in DOMAIN cs THEN cs[m] ELSE "closed") = "closed")

\* every order np.random.permutation can give a list of n elements
IndexPermutations(n) ==
  {p \in [1..n -> 1..n] : \A i, j \in 1..n : i # j => p[i] # p[j]}

\* s[:n] for n >= 0
Take(s, n) == SubSeq(s, 1, IF n < Len(s) THEN n ELSE Len(s))

\* lines 258-260 with a review coroutine gathered along with the generation
GenerationCallsWithReview(active, p, n, t) ==
  LET permuted == [i \in 1..Len(active) |-> active[p[i]]]
      picked   == Take(permuted, n)
  IN  [i \in 1..Len(picked) |-> NewCall(picked[i], GenerationPrompt(t))]
        \o << NewCall(review_model, ReviewPrompt(t, << >>)) >>

\* lines 258-260 drawing the same model each time
GenerationCallsRepeated(active, p, n, t) ==
  LET picked == Take([i \in 1..Len(active) |-> active[p[1]]], n)
  IN  [i \in 1..Len(picked) |-> NewCall(picked[i], GenerationPrompt(t))]

\* lines 258-260: the coroutines created for one permutation p of the
\* active models
GenerationCalls(active, p, n, t) ==
  LET permuted == [i \in 1..Len(active) |-> active[p[i]]]
      picked   == Take(permuted, n)
  IN  [i \in 1..Len(picked) |-> NewCall(picked[i], GenerationPrompt(t))]

\* every returned dict is kept, with or without text (line 268 left out)
KeepReturned(results) ==
  SelectSeq(results, LAMBDA r : ~r.raised)

\* the loop of lines 265-270 left at the first exception it meets
RECURSIVE UntilFirstFailure(_)
UntilFirstFailure(results) ==
  IF results = << >> \/ results[1].raised THEN << >>
  ELSE IF Strip(results[1].text) # << >>
    THEN << results[1] >> \o UntilFirstFailure(Tail(results))
    ELSE UntilFirstFailure(Tail(results))

\* lines 264-270: what is kept of the gathered results
ValidResults(results) ==
  SelectSeq(results, LAMBDA r : ~r.raised /\ Strip(r.text) # << >>)

\* lines 281-288: one review coroutine per candidate with text
ReviewCalls(t, cands) ==
  LET with_text == SelectSeq(cands, LAMBDA c : Strip(c.text) # << >>)
  IN  [i \in 1..Len(with_text) |->
         NewCall(review_model, ReviewPrompt(t, with_text[i].text))]

Min(a, b) == IF a < b THEN a ELSE b

\* the loop of lines 292-311 passing over a result whose text is empty
RECURSIVE ReviewLoopSkipsEmpty(_, _, _, _)
ReviewLoopSkipsEmpty(cands, review_results, i, acc) ==
  IF i > Min(Len(cands), Len(review_results))
    THEN [raised |-> FALSE, reviews |-> acc]
    ELSE IF review_results[i].raised \/ review_results[i].text = << >>
      THEN ReviewLoopSkipsEmpty(cands, review_results, i + 1, acc)
      ELSE
        LET review_data ==
              [ original |-> Str(cands[i].text),
                model    |-> cands[i].model,
                reviewer |-> review_model ]
                @@ ParseReviewResponse(review_results[i].text)
            verdict == ValidateReviewScores(review_data)
        IN  IF verdict.raised THEN verdict
            ELSE ReviewLoopSkipsEmpty(cands, review_results, i + 1,
                            IF verdict.valid THEN Append(acc, review_data) ELSE acc)

\* lines 292-311, from the pair at position i on: the reviews appended to
\* acc, or the exception that leaves the loop
RECURSIVE ReviewLoop(_, _, _, _)
ReviewLoop(cands, review_results, i, acc) ==
  IF i > Min(Len(cands), Len(review_results))
    THEN [raised |-> FALSE, reviews |-> acc]
    ELSE IF review_results[i].raised
      THEN ReviewLoop(cands, review_results, i + 1, acc)
      ELSE
        LET review_data ==
              [ original |-> Str(cands[i].text),
                model    |-> cands[i].model,
                reviewer |-> review_model ]
                @@ ParseReviewResponse(review_results[i].text)
            verdict == ValidateReviewScores(review_data)
        IN  IF verdict.raised THEN verdict
            ELSE ReviewLoop(cands, review_results, i + 1,
                            IF verdict.valid THEN Append(acc, review_data) ELSE acc)

\* what _peer_review returns or raises once gather has returned
PeerReviewJoin(cands, review_results) ==
  ReviewLoop(cands, review_results, 1, << >>)

----------------------------------------------------------------------------
(* _sanitize_prompt.  Its argument is a run of prompt.plain characters     *)
(* that are none of "<", ">" and newline, followed by the characters of    *)
(* prompt.rest: long prompts differ only in the length of the run.         *)

\* re.sub(r'<[^>]+>', '', s) from position i on: a "<" with a ">" after at
\* least one other character is dropped with everything up to the first ">"
RECURSIVE StripTags(_, _)
StripTags(s, i) ==
  IF i > Len(s) THEN << >>
  ELSE LET j == FindChar(">", s, i + 1)
       IN  IF s[i] = "<" /\ j > i + 1
             THEN StripTags(s, j + 1)
             ELSE << s[i] >> \o StripTags(s, i + 1)

\* re.sub(r'\n{10,}', '\n' * 5, s) from position i on
RECURSIVE CollapseNewlines(_, _)
CollapseNewlines(s, i) ==
  IF i > Len(s) THEN << >>
  ELSE LET j == SkipWhile({"\n"}, s, i)
       IN  IF j - i >= 10
             THEN [k \in 1..5 |-> "\n"] \o CollapseNewlines(s, j)
           ELSE IF j > i
             THEN SubSeq(s, i, j - 1) \o CollapseNewlines(s, j)
           ELSE << s[i] >> \o CollapseNewlines(s, i + 1)

\* sanitized[:max_prompt_length]
Truncate(plain, sanitized) ==
  IF plain >= max_prompt_length
    THEN [plain |-> max_prompt_length, rest |-> << >>]
    ELSE [plain |-> plain, rest |-> Take(sanitized, max_prompt_length - plain)]

\* _sanitize_prompt replacing the newlines before it removes the tags
SanitizeCollapseFirst(prompt) ==
  Truncate(prompt.plain, StripTags(CollapseNewlines(prompt.rest, 1), 1))

\* _sanitize_prompt
Sanitize(prompt) ==
  Truncate(prompt.plain, CollapseNewlines(StripTags(prompt.rest, 1), 1))

----------------------------------------------------------------------------
(* Selection and learning.                                                 *)

\* improvement_threshold, in hundredths (0.15)
improvement_threshold == 15

ScoreOf(review) == Get(review, "score", Num(0)).v

\* an insertion that puts x before the elements of equal score
RECURSIVE InsertDescendingUnstable(_, _)
InsertDescendingUnstable(s, x) ==
  IF s = << >> THEN << x >>
  ELSE IF Get(s[Len(s)], "score", Num(0)).v > Get(x, "score", Num(0)).v
    THEN Append(s, x)
  ELSE Append(InsertDescendingUnstable(SubSeq(s, 1, Len(s) - 1), x), s[Len(s)])

\* list.sort(key=score, reverse=True): a stable insertion of x into the
\* descending list s
RECURSIVE InsertDescending(_, _)
InsertDescending(s, x) ==
  IF s = << >> THEN << x >>
  ELSE IF ScoreOf(s[Len(s)]) >= ScoreOf(x) THEN Append(s, x)
  ELSE Append(InsertDescending(SubSeq(s, 1, Len(s) - 1), x), s[Len(s)])

RECURSIVE SortDescending(_)
SortDescending(s) ==
  IF s = << >> THEN << >>
  ELSE InsertDescending(SortDescending(SubSeq(s, 1, Len(s) - 1)), s[Len(s)])

\* max() of a non-empty list of numbers
RECURSIVE MaxOf(_)
MaxOf(s) ==
  IF Len(s) = 1 THEN s[1]
  ELSE LET m == MaxOf(Tail(s)) IN IF s[1] >= m THEN s[1] ELSE m

\* s[-n:]
LastN(s, n) == IF Len(s) <= n THEN s ELSE SubSeq(s, Len(s) - n + 1, Len(s))

\* _should_trigger_improvement asking for a score above 5.0 even when the
\* log is empty
ShouldTriggerAboveFive(milestones, current_score) ==
  IF milestones = << >> THEN current_score > 50
  ELSE
    LET best_previous == MaxOf(LastN(milestones, 10))
    IN  /\ 1000000 * (current_score - best_previous)
             > improvement_threshold * (10000 * best_previous + 1)
        /\ current_score > 50

\* _should_trigger_improvement without the comparison with earlier entries
ShouldTriggerUncompared(milestones, current_score) ==
  IF milestones = << >> THEN TRUE ELSE current_score > 50

\* _should_trigger_improvement comparing with the best of the whole log
ShouldTriggerOverWholeLog(milestones, current_score) ==
  IF milestones = << >> THEN TRUE
  ELSE
    LET best_previous == MaxOf(milestones)
    IN  /\ 1000000 * (current_score - best_previous)
             > improvement_threshold * (10000 * best_previous + 1)
        /\ current_score > 50

\* _should_trigger_improvement, on scores in tenths:
\*   (score - best) / (best + 1e-5) > threshold, the denominator positive
ShouldTriggerImprovement(milestones, current_score) ==
  IF milestones = << >> THEN TRUE
  ELSE
    LET best_previous == MaxOf(LastN(milestones, 10))
    IN  /\ 1000000 * (current_score - best_previous)
             > improvement_threshold * (10000 * best_previous + 1)
        /\ current_score > 50

\* candidates[0] instead of the longest
FirstCandidate(cands) == cands[1]

\* max(candidates, key=len(text)): the first of the longest
RECURSIVE LongestCandidate(_)
LongestCandidate(cands) ==
  IF Len(cands) = 1 THEN cands[1]
  ELSE
    LET rest == LongestCandidate(Tail(cands))
    IN  IF Len(cands[1].text) >= Len(rest.text) THEN cands[1] ELSE rest

Message(s) == Str(<< s >>)

\* lines 345-352
ReadyResult ==
  [ solution |-> Message("Emergent Universal Key is ready! The AI agent is configured and working."),
    score |-> 0, model |-> "system", processing_time |-> 0, confidence |-> "ready",
    info |-> "Using Emergent Universal Key for testing (GPT-4o, Claude 3.5 Sonnet, Gemini 2.0)" ]

\* the empty list of candidates goes on to the fallback of lines 368-375
NoCandidatesAsLowConfidence(elapsed) ==
  [ solution |-> Str(<< >>), score |-> 50, model |-> "fallback",
    processing_time |-> elapsed, confidence |-> "low" ]

\* the rejections reaching the except clause of solve (lines 399-410)
NoCandidatesAsError(elapsed) ==
  [ solution |-> Message("An error occurred"), score |-> 0, model |-> "error",
    processing_time |-> elapsed, confidence |-> "none",
    error |-> Message("Rate limit exceeded") ]

\* lines 357-363
NoCandidatesResult(elapsed) ==
  [ solution |-> Message("I apologize, but I'm unable to generate a response at the moment. Please try again."),
    score |-> 0, model |-> "fallback", processing_time |-> elapsed, confidence |-> "none" ]

\* lines 368-375
NoReviewsResult(cands, elapsed) ==
  LET best_candidate == LongestCandidate(cands)
  IN  [ solution |-> Str(best_candidate.text), score |-> 50,
        model |-> best_candidate.model, processing_time |-> elapsed,
        confidence |-> "low" ]

\* lines 391-398 with ">=" for the ">" of line 397
WinnerResultAtLeastSeven(winner, elapsed) ==
  [ solution |-> Get(winner, "improved", Get(winner, "original", Str(<< >>))),
    score |-> Get(winner, "score", Num(0)).v,
    model |-> Get(winner, "model", "unknown"),
    processing_time |-> elapsed,
    flaw_corrected |-> Get(winner, "flaw", Str(<<"N","O","N","E">>)),
    confidence |-> IF Get(winner, "score", Num(0)).v >= 70 THEN "high" ELSE "medium" ]

\* lines 391-398 with: winner.get("improved") or winner.get("original", "")
WinnerResultOrOriginal(winner, elapsed) ==
  [ solution |-> IF Get(winner, "improved", Str(<< >>)) # Str(<< >>)
                   THEN winner.improved
                   ELSE Get(winner, "original", Str(<< >>)),
    score |-> ScoreOf(winner),
    model |-> Get(winner, "model", "unknown"),
    processing_time |-> elapsed,
    flaw_corrected |-> Get(winner, "flaw", Str(<<"N","O","N","E">>)),
    confidence |-> IF ScoreOf(winner) > 70 THEN "high" ELSE "medium" ]

\* lines 391-398
WinnerResult(winner, elapsed) ==
  [ solution |-> Get(winner, "improved", Get(winner, "original", Str(<< >>))),
    score |-> ScoreOf(winner),
    model |-> Get(winner, "model", "unknown"),
    processing_time |-> elapsed,
    flaw_corrected |-> Get(winner, "flaw", Str(<<"N","O","N","E">>)),
    confidence |-> IF ScoreOf(winner) > 70 THEN "high" ELSE "medium" ]

\* the except clause answers as if no candidate had been generated
ErrorResultWithoutTag(e, elapsed) ==
  [ solution |-> Message("I apologize, but I'm unable to generate a response at the moment. Please try again."),
    score |-> 0, model |-> "fallback", processing_time |-> elapsed, confidence |-> "none" ]

\* the except clause lets the exception out
ErrorResultReraised(e, elapsed) == e

\* lines 400-410: the except clause of solve
ErrorResult(e, elapsed) ==
  [ solution |-> Str(<< "An error occurred: ", e.msg >>),
    score |-> 0, model |-> "error", processing_time |-> elapsed,
    confidence |-> "none", error |-> e.msg ]

\* lines 365-398 logging the fallback's 5.0 as a milestone too
AfterReviewLogsFallback(cands, review, milestones, elapsed) ==
  IF review.raised
    THEN [result |-> ErrorResult(review, elapsed), quality_milestones |-> milestones]
  ELSE IF review.reviews = << >>
    THEN [result |-> NoReviewsResult(cands, elapsed),
          quality_milestones |-> Append(milestones, 50)]
  ELSE
    LET winner == SortDescending(review.reviews)[1]
        current_score == Get(winner, "score", Num(0)).v
    IN  [ result |-> WinnerResult(winner, elapsed),
          quality_milestones |->
            IF ShouldTriggerImprovement(milestones, current_score)
              THEN Append(milestones, current_score)
              ELSE milestones ]

\* lines 365-398 once _peer_review is over with outcome review: the result
\* and the milestone log solve leaves
AfterReview(cands, review, milestones, elapsed) ==
  IF review.raised
    THEN [result |-> ErrorResult(review, elapsed), quality_milestones |-> milestones]
  ELSE IF review.reviews = << >>
    THEN [result |-> NoReviewsResult(cands, elapsed), quality_milestones |-> milestones]
  ELSE
    LET winner == SortDescending(review.reviews)[1]
        current_score == ScoreOf(winner)
    IN  [ result |-> WinnerResult(winner, elapsed),
          quality_milestones |->
            IF ShouldTriggerImprovement(milestones, current_score)
              THEN Append(milestones, current_score)
              ELSE milestones ]

----------------------------------------------------------------------------
(* What the review backend answers.                                        *)

\*   {"score": 6.0, "flaw": "NONE", "improved": "x"}
ReviewJson60 ==
  <<
    "{", "\"", "s", "c", "o", "r", "e", "\"", ":", " ", "6", ".", "0", ",", " ", "\"",
    "f", "l", "a", "w", "\"", ":", " ", "\"", "N", "O", "N", "E", "\"", ",", " ", "\"",
    "i", "m", "p", "r", "o", "v", "e", "d", "\"", ":", " ", "\"", "x", "\"", "}" >>

\*   {"score": 9.0, "flaw": "NONE", "improved": "x"}
ReviewJson90 ==
  <<
    "{", "\"", "s", "c", "o", "r", "e", "\"", ":", " ", "9", ".", "0", ",", " ", "\"",
    "f", "l", "a", "w", "\"", ":", " ", "\"", "N", "O", "N", "E", "\"", ",", " ", "\"",
    "i", "m", "p", "r", "o", "v", "e", "d", "\"", ":", " ", "\"", "x", "\"", "}" >>

\*   {"score": 7.5, "flaw": "NONE", "improved": "x"}
ReviewJson75 ==
  <<
    "{", "\"", "s", "c", "o", "r", "e", "\"", ":", " ", "7", ".", "5", ",", " ", "\"",
    "f", "l", "a", "w", "\"", ":", " ", "\"", "N", "O", "N", "E", "\"", ",", " ", "\"",
    "i", "m", "p", "r", "o", "v", "e", "d", "\"", ":", " ", "\"", "x", "\"", "}" >>

\*   I would say "score": 6
ReviewBareScore ==
  <<
    "I", " ", "w", "o", "u", "l", "d", " ", "s", "a", "y", " ", "\"", "s", "c", "o",
    "r", "e", "\"", ":", " ", "6" >>

\*   {"score": 7.0, "flaw": "NONE", "improved": "x"}
ReviewJson70 ==
  <<
    "{", "\"", "s", "c", "o", "r", "e", "\"", ":", " ", "7", ".", "0", ",",
    " ", "\"", "f", "l", "a", "w", "\"", ":", " ", "\"", "N", "O", "N", "E",
    "\"", ",", " ", "\"", "i", "m", "p", "r", "o", "v", "e", "d", "\"", ":",
    " ", "\"", "x", "\"", "}" >>

\*   {"score": 10}
ReviewJsonTen ==
  <<
    "{", "\"", "s", "c", "o", "r", "e", "\"", ":", " ", "1", "0", "}" >>

\*   {"score": 11}
ReviewJsonEleven ==
  <<
    "{", "\"", "s", "c", "o", "r", "e", "\"", ":", " ", "1", "1", "}" >>

\*   {"score": "9"}
ReviewJsonStringScore ==
  <<
    "{", "\"", "s", "c", "o", "r", "e", "\"", ":", " ", "\"", "9", "\"", "}" >>

\*   {"score": null}
ReviewJsonNullScore ==
  <<
    "{", "\"", "s", "c", "o", "r", "e", "\"", ":", " ", "n", "u", "l", "l",
    "}" >>

\*   {"flaw": "x"}
ReviewJsonNoScore ==
  <<
    "{", "\"", "f", "l", "a", "w", "\"", ":", " ", "\"", "x", "\"", "}" >>

\*   {"score": 8.0, "flaw": }
ReviewBrokenJson ==
  <<
    "{", "\"", "s", "c", "o", "r", "e", "\"", ":", " ", "8", ".", "0", ",",
    " ", "\"", "f", "l", "a", "w", "\"", ":", " ", "}" >>

\* The answers the review backend has ready for n review calls: the scores
\* 6.0, 9.0 and 7.5 in JSON, or a sentence with a bare score each time.
ReviewPlans(n) ==
  { Take(<< ReviewJson60, ReviewJson90, ReviewJson75 >>, n),
    [i \in 1..n |-> ReviewBareScore] }

----------------------------------------------------------------------------
(* The agent after __init__ (lines 92-119).                                *)

Range(s) == {s[i] : i \in 1..Len(s)}

\* server.py as imported: "ai_agent = None", "task_coordinator = None"; 0
\* stands for None, and an object is named by its place among the objects
\* of its class made so far
NotStarted ==
  [ ai_agent |-> 0, task_coordinator |-> 0, agents |-> << >>,
    coordinators |-> << >>, requests |-> << >> ]

\* line 94
InitNumCandidates(arg, ms) == Min(arg, Len(ms))

\* the function harness has called nothing yet
NotApplied == [fn |-> "none"]

\* a solve coroutine of the concurrency harness before solve is called
NotCalled == [pc |-> "idle", fan_out |-> 0, admitted |-> 0, seen |-> << >>,
              score |-> -1, triggered |-> FALSE]

Init ==
  /\ api_key \in {PLACEHOLDER_KEY, "", "sk-key"}
  /\ models \in {SubSeq(ALL_MODELS, 1, k) : k \in 0..Len(ALL_MODELS)}
  /\ \E arg \in 1..MaxNumCandidates : num_candidates = InitNumCandidates(arg, models)
  /\ circuit_state = [m \in Range(models) \cup {review_model} |-> "closed"]
  /\ request_timestamps = << >>
  /\ quality_milestones = << >>
  /\ now = 0
  /\ pc = "idle"
  /\ task = "plain"
  /\ start_time = 0
  /\ stage_calls = << >>
  /\ candidates = << >>
  /\ review_replies = << >>
  /\ reviews = << >>
  /\ result = NoResult
  /\ rounds = 0
  /\ rl_calls = << >>
  /\ applied = NotApplied
  /\ solves = [r \in 1..MaxConcurrent |-> NotCalled]
  /\ server = NotStarted

config == << api_key, models, num_candidates, circuit_state >>

\* time.time(): the clock never runs backwards
Clock == now..MaxTime

----------------------------------------------------------------------------
(* solve (lines 338-410), cut at its suspension points.                    *)

KeyConfigured == api_key # "" /\ api_key # PLACEHOLDER_KEY

\* solve(t) is called: guard and frame shared by the three ways it starts
SolveCalled(t) ==
  /\ pc \in {"idle", "done"}
  /\ rounds < MaxRounds
  /\ rounds' = rounds + 1
  /\ task' = t
  /\ start_time' \in Clock
  /\ candidates' = << >>
  /\ review_replies' = << >>
  /\ reviews' = << >>
  /\ UNCHANGED << config, request_timestamps, quality_milestones, rl_calls, applied, solves,
                  server >>

\* lines 344-352: no API key
SolveReady(t) ==
  /\ SolveCalled(t)
  /\ ~KeyConfigured
  /\ now' = start_time'
  /\ stage_calls' = << >>
  /\ result' = ReadyResult
  /\ pc' = "done"

\* lines 251-255 and 400-410: no active model; the RuntimeError is caught
SolveNoModels(t) ==
  /\ SolveCalled(t)
  /\ KeyConfigured
  /\ GetActiveModels(models, circuit_state) = << >>
  /\ stage_calls' = << >>
  /\ now' \in start_time'..MaxTime
  /\ result' = ErrorResult(Raise("RuntimeError", "No available models"), now' - start_time')
  /\ pc' = "done"

\* lines 257-262: the generation coroutines are created and gathered
SolveFanOut(t) ==
  /\ SolveCalled(t)
  /\ KeyConfigured
  /\ LET active == GetActiveModels(models, circuit_state)
     IN  /\ active # << >>
         /\ \E p \in IndexPermutations(Len(active)) :
              stage_calls' = GenerationCalls(active, p, num_candidates, t)
  /\ now' = start_time'
  /\ result' = NoResult
  /\ pc' = "generate"

Running == pc \in {"generate", "review"}

AllDone == \A i \in 1..Len(stage_calls) : stage_calls[i].pc = "done"

CallFrame ==
  UNCHANGED << config, quality_milestones, pc, task, start_time,
               candidates, review_replies, reviews, result, rounds, rl_calls, applied, solves,
               server >>

\* coroutine i runs from its start to its first request; gather starts the
\* coroutines in the order it was given them
CallStart(i) ==
  /\ Running
  /\ stage_calls[i].pc = "created"
  /\ \A j \in 1..(i - 1) : stage_calls[j].pc # "created"
  /\ now' \in Clock
  /\ stage_calls' = [stage_calls EXCEPT ![i] = CallEnter(@, request_timestamps, now')]
  /\ request_timestamps' = CheckRateLimitAt(request_timestamps, now').request_timestamps
  /\ CallFrame

\* The answer to the request of coroutine i arrives.  The event loop runs
\* the first step of every gathered coroutine before it polls for I/O, so
\* no answer is handled while a coroutine of the batch has not started.
Awaiting(i) ==
  /\ Running
  /\ \A j \in 1..Len(stage_calls) : stage_calls[j].pc # "created"
  /\ stage_calls[i].pc = "http"

Http200(i) ==
  /\ Awaiting(i)
  /\ \E content \in (IF pc = "generate"
                       THEN {BackendAnswer[stage_calls[i].model], BlankAnswer}
                       ELSE {review_replies[i]}) :
       stage_calls' = [stage_calls EXCEPT ![i] = OnSuccess(@, content)]
  /\ UNCHANGED << request_timestamps, now >>
  /\ CallFrame

Http429(i) ==
  /\ Awaiting(i)
  /\ stage_calls' = [stage_calls EXCEPT ![i] = On429(@)]
  /\ UNCHANGED << request_timestamps, now >>
  /\ CallFrame

HttpErrorStatus(i) ==
  /\ Awaiting(i)
  /\ stage_calls' = [stage_calls EXCEPT ![i] = OnErrorStatus(@)]
  /\ UNCHANGED << request_timestamps, now >>
  /\ CallFrame

HttpMalformed(i) ==
  /\ Awaiting(i)
  /\ stage_calls' = [stage_calls EXCEPT ![i] = OnMalformed(@)]
  /\ UNCHANGED << request_timestamps, now >>
  /\ CallFrame

HttpTimeout(i) ==
  /\ Awaiting(i)
  /\ stage_calls' = [stage_calls EXCEPT ![i] = OnTimeout(@)]
  /\ UNCHANGED << request_timestamps, now >>
  /\ CallFrame

Results == [i \in 1..Len(stage_calls) |-> stage_calls[i].result]

\* lines 262-273 and 356-363: gather returns, no candidate is left
SolveNoCandidates ==
  /\ pc = "generate"
  /\ AllDone
  /\ ValidResults(Results) = << >>
  /\ candidates' = << >>
  /\ now' \in Clock
  /\ result' = NoCandidatesResult(now' - start_time)
  /\ pc' = "done"
  /\ UNCHANGED << config, request_timestamps, quality_milestones, task,
                  start_time, stage_calls, review_replies, reviews, rounds,
                  rl_calls, applied, solves, server >>

\* lines 262-273 and 365, 279-290: gather returns candidates and the review
\* coroutines are created and gathered
SolveBeginReview ==
  /\ pc = "generate"
  /\ AllDone
  /\ ValidResults(Results) # << >>
  /\ candidates' = ValidResults(Results)
  /\ stage_calls' = ReviewCalls(task, candidates')
  /\ review_replies' \in ReviewPlans(Len(stage_calls'))
  /\ pc' = "review"
  /\ UNCHANGED << config, request_timestamps, quality_milestones, now, task,
                  start_time, reviews, result, rounds, rl_calls, applied, solves,
                  server >>

\* lines 290-313 and 367-410: gather returns the reviews and solve returns
SolveAfterReview ==
  /\ pc = "review"
  /\ AllDone
  /\ now' \in Clock
  /\ LET review == PeerReviewJoin(candidates, Results)
         out == AfterReview(candidates, review, quality_milestones,
                            now' - start_time)
     IN  /\ reviews' = (IF review.raised THEN << >> ELSE review.reviews)
         /\ result' = out.result
         /\ quality_milestones' = out.quality_milestones
  /\ pc' = "done"
  /\ UNCHANGED << config, request_timestamps, task, start_time, stage_calls,
                  candidates, review_replies, rounds, rl_calls, applied, solves,
                  server >>

Next ==
  \/ \E t \in TaskNames : SolveReady(t)
  \/ \E t \in TaskNames : SolveNoModels(t)
  \/ \E t \in TaskNames : SolveFanOut(t)
  \/ \E i \in 1..Len(stage_calls) : CallStart(i)
  \/ \E i \in 1..Len(stage_calls) : Http200(i)
  \/ \E i \in 1..Len(stage_calls) : Http429(i)
  \/ \E i \in 1..Len(stage_calls) : HttpErrorStatus(i)
  \/ \E i \in 1..Len(stage_calls) : HttpMalformed(i)
  \/ \E i \in 1..Len(stage_calls) : HttpTimeout(i)
  \/ SolveNoCandidates
  \/ SolveBeginReview
  \/ SolveAfterReview

Spec == Init /\ [][Next]_vars

\* Every request ends (aiohttp's total timeout) and the event loop runs every
\* ready coroutine, so a step that stays possible is eventually taken.
FairSpec == Spec /\ WF_vars(Next)

----------------------------------------------------------------------------
(* The rate limiter alone: _check_rate_limit called at any times on a new  *)
(* agent, each call recorded with its time and whether it raised.          *)

CheckRateLimit ==
  /\ Len(rl_calls) < MaxRateCalls
  /\ now' \in Clock
  /\ LET rl == CheckRateLimitAt(request_timestamps, now')
     IN  /\ request_timestamps' = rl.request_timestamps
         /\ rl_calls' = Append(rl_calls, [t |-> now', raised |-> rl.raised])
  /\ UNCHANGED << config, quality_milestones, pc, task, start_time, stage_calls,
                  candidates, review_replies, reviews, result, rounds,
                  applied, solves, server >>

RateLimitSpec == Init /\ [][CheckRateLimit]_vars

----------------------------------------------------------------------------
(* The review and selection stages alone: solve from the return of         *)
(* _generate_candidates on, with the candidates and the outcome of each    *)
(* review coroutine given.  _peer_review takes any list of candidates, so  *)
(* lists with an empty text are given too.                                 *)

\* what _call_openrouter returns for each model, with text or without
CandidateOf(m, with_text) ==
  Success(NewCall(m, GenerationPrompt("plain")),
          IF with_text THEN BackendAnswer[m] ELSE BlankAnswer)

\* one candidate for each of the first n models, n >= 1
CandidateLists ==
  UNION { { [i \in 1..n |-> CandidateOf(ALL_MODELS[i], w[i])] :
              w \in [1..n -> BOOLEAN] } : n \in 1..Len(ALL_MODELS) }

\* message.content of the answers of the review backend
ReviewAnswers ==
  { ReviewJson70, ReviewJsonTen, ReviewJsonEleven, ReviewJsonStringScore,
    ReviewJsonNullScore, ReviewJsonNoScore, ReviewBrokenJson }

\* how a review coroutine ends: raising, returning an answer, or leaving
\* the retry loop after HTTP 429 on its last attempt (line 240)
ReviewEndings ==
  { [raised |-> TRUE], [raised |-> FALSE, status |-> 429] }
    \cup { [raised |-> FALSE, content |-> x] : x \in ReviewAnswers }

\* the review coroutine c once it has ended as e says
Ended(c, e) ==
  LET admitted == [c EXCEPT !.checked = TRUE, !.validated = TRUE]
  IN  IF e.raised
        THEN RaiseOrRetry([admitted EXCEPT !.attempt = max_retries - 1],
                          Raise("ClientError", "HTTP 500"))
        ELSE IF "status" \in DOMAIN e
          THEN On429([admitted EXCEPT !.attempt = max_retries - 1])
          ELSE OnSuccess(admitted, e.content)

ReviewInit ==
  /\ Init
  /\ api_key = "sk-key"
  /\ models = ALL_MODELS
  /\ num_candidates = Len(ALL_MODELS)

\* solve is called and _generate_candidates returns []: lines 356-363
GivenNoCandidates ==
  /\ pc \in {"idle", "done"}
  /\ rounds < MaxRounds
  /\ rounds' = rounds + 1
  /\ task' = "plain"
  /\ start_time' = now
  /\ candidates' = << >>
  /\ stage_calls' = << >>
  /\ reviews' = << >>
  /\ result' = NoCandidatesResult(now - start_time')
  /\ pc' = "done"
  /\ UNCHANGED << config, request_timestamps, quality_milestones, now,
                  review_replies, rl_calls, applied, solves, server >>

\* solve is called, _generate_candidates returns cands and the review
\* coroutines of lines 279-290 have all ended
GivenCandidates ==
  /\ pc \in {"idle", "done"}
  /\ rounds < MaxRounds
  /\ rounds' = rounds + 1
  /\ task' = "plain"
  /\ start_time' = now
  /\ \E cands \in CandidateLists :
       LET calls == ReviewCalls("plain", cands)
       IN  /\ candidates' = cands
           /\ \E e \in [1..Len(calls) -> ReviewEndings] :
                stage_calls' = [i \in 1..Len(calls) |-> Ended(calls[i], e[i])]
  /\ reviews' = << >>
  /\ result' = NoResult
  /\ pc' = "review"
  /\ UNCHANGED << config, request_timestamps, quality_milestones, now,
                  review_replies, rl_calls, applied, solves, server >>

ReviewNext ==
  \/ GivenNoCandidates
  \/ GivenCandidates
  \/ SolveAfterReview

ReviewSpec == ReviewInit /\ [][ReviewNext]_vars

----------------------------------------------------------------------------
(* Every way solve returns: the review harness on an agent with a key and  *)
(* models, and the two early returns on an agent without.                  *)

SolveInit ==
  /\ Init
  /\ api_key \in {PLACEHOLDER_KEY, "sk-key"}
  /\ models \in {<< >>, ALL_MODELS}
  /\ num_candidates = InitNumCandidates(MaxNumCandidates, models)

SolveNext ==
  \/ SolveReady("plain")
  \/ SolveNoModels("plain")
  \/ KeyConfigured /\ models # << >> /\ GivenNoCandidates
  \/ KeyConfigured /\ models # << >> /\ GivenCandidates
  \/ SolveAfterReview

SolveSpec == SolveInit /\ [][SolveNext]_vars

----------------------------------------------------------------------------
(* Several solve coroutines on one agent, as when a server awaits solve    *)
(* for several requests at once.  A coroutine is cut at its suspension     *)
(* points and reduced to what it does to the attributes of the agent: each *)
(* _call_openrouter coroutine runs _check_rate_limit when it starts, and   *)
(* the winner's score is held against quality_milestones.  What the        *)
(* backends answer is given, as in the review harness.                     *)

ConcurrentInit ==
  /\ Init
  /\ api_key = "sk-key"
  /\ models = ALL_MODELS
  /\ num_candidates = Len(ALL_MODELS) - 1

\* line 338-354 and 257-262: solve is called and creates its generation
\* coroutines; seen remembers the log the round found
SolveStarts(r) ==
  /\ solves[r].pc = "idle"
  /\ solves' = [solves EXCEPT ![r] = [@ EXCEPT !.pc = "generate",
                                               !.fan_out = num_candidates,
                                               !.seen = quality_milestones]]
  /\ UNCHANGED << config, request_timestamps, quality_milestones, now, pc, task,
                  start_time, stage_calls, candidates, review_replies, reviews,
                  result, rounds, rl_calls, applied, server >>

\* lines 162-163: one more coroutine of the gather of r starts and runs to
\* its first request
GatewayEnters(r) ==
  /\ solves[r].pc \in {"generate", "review"}
  /\ solves[r].fan_out > 0
  /\ now' \in Clock
  /\ LET rl == CheckRateLimitAt(request_timestamps, now')
     IN  /\ request_timestamps' = rl.request_timestamps
         /\ rl_calls' = Append(rl_calls, [t |-> now', raised |-> rl.raised])
         /\ solves' = [solves EXCEPT ![r] =
                         [@ EXCEPT !.fan_out = @ - 1,
                                   !.admitted = IF rl.raised THEN @ ELSE @ + 1]]
  /\ UNCHANGED << config, quality_milestones, pc, task, start_time, stage_calls,
                  candidates, review_replies, reviews, result, rounds, applied,
                  server >>

\* lines 262-273 and 356-365: the generation gather of r returns; of the
\* admitted calls any number gave a candidate, and solve returns without
\* review when none did
GenerationJoins(r) ==
  /\ solves[r].pc = "generate"
  /\ solves[r].fan_out = 0
  /\ \E n \in 0..solves[r].admitted :
       solves' = [solves EXCEPT ![r] =
                    [@ EXCEPT !.pc = IF n = 0 THEN "done" ELSE "review",
                              !.fan_out = n,
                              !.admitted = 0]]
  /\ UNCHANGED << config, request_timestamps, quality_milestones, now, pc, task,
                  start_time, stage_calls, candidates, review_replies, reviews,
                  result, rounds, rl_calls, applied, server >>

\* lines 290-313 and 367-383: the review gather of r returns; with no
\* review solve falls back, else the winner's score (6.0 or 9.0) is held
\* against the log
ReviewJoins(r) ==
  /\ solves[r].pc = "review"
  /\ solves[r].fan_out = 0
  /\ IF solves[r].admitted = 0
       THEN /\ solves' = [solves EXCEPT ![r] = [@ EXCEPT !.pc = "done"]]
            /\ UNCHANGED quality_milestones
       ELSE \E current_score \in {60, 90} :
              LET trigger == ShouldTriggerImprovement(quality_milestones, current_score)
              IN  /\ solves' = [solves EXCEPT ![r] =
                                  [@ EXCEPT !.pc = "done",
                                            !.score = current_score,
                                            !.triggered = trigger]]
                  /\ quality_milestones' =
                       (IF trigger THEN Append(quality_milestones, current_score)
                                   ELSE quality_milestones)
  /\ UNCHANGED << config, request_timestamps, now, pc, task, start_time,
                  stage_calls, candidates, review_replies, reviews, result,
                  rounds, rl_calls, applied, server >>

ConcurrentNext ==
  \/ \E r \in 1..MaxConcurrent : SolveStarts(r)
  \/ \E r \in 1..MaxConcurrent : GatewayEnters(r)
  \/ \E r \in 1..MaxConcurrent : GenerationJoins(r)
  \/ \E r \in 1..MaxConcurrent : ReviewJoins(r)

ConcurrentSpec == ConcurrentInit /\ [][ConcurrentNext]_vars

----------------------------------------------------------------------------
(* The functions of the agent that read no attribute but their arguments,  *)
(* called once on a new agent with arguments from bounded sets; the call   *)
(* is recorded with its arguments and its value.                           *)

\* scores in tenths, 0.0 to 10.0
Scores == 0..100

\* n times the value v
Repeat(v, n) == [i \in 1..n |-> v]

\* Milestone logs: every log of one or two values, and logs of ten to twelve
\* entries that are all alike but for one, which is within the last ten
\* entries or before them.
MilestoneLogs ==
  LET values == {0, 60, 70, 100}
  IN  UNION { [1..n -> values] : n \in 1..2 }
        \cup { [Repeat(l, n) EXCEPT ![k] = h] :
                 l \in values, h \in values, n \in 10..12, k \in {1, 2, 3, 7, 10} }

\* self._should_trigger_improvement(score) with self.quality_milestones = log
ApplyShouldTrigger ==
  /\ applied = NotApplied
  /\ \E log \in MilestoneLogs, score \in Scores :
       applied' = [fn |-> "_should_trigger_improvement", log |-> log,
                   score |-> score,
                   value |-> ShouldTriggerImprovement(log, score)]
  /\ UNCHANGED << config, request_timestamps, quality_milestones, now, pc, task,
                  start_time, stage_calls, candidates, review_replies, reviews,
                  result, rounds, rl_calls, solves, server >>

\* Prompts for _sanitize_prompt: a run of plain characters that ends well
\* before, just before or after max_prompt_length, then up to three pieces:
\* angle brackets, a tag, a letter, five or ten newlines.
SanitizeArguments ==
  LET pieces == { << >>, <<"<">>, <<">">>, <<"<", "b", ">">>, <<"b">>,
                  Repeat("\n", 5), Repeat("\n", 10) }
      runs   == { 0, max_prompt_length - 12, max_prompt_length - 3,
                  max_prompt_length + 1 }
  IN  { [plain |-> n, rest |-> a \o b \o c] :
          n \in runs, a \in pieces, b \in pieces, c \in pieces }

\* self._sanitize_prompt(prompt)
ApplySanitize ==
  /\ applied = NotApplied
  /\ \E prompt \in SanitizeArguments :
       applied' = [fn |-> "_sanitize_prompt", prompt |-> prompt,
                   value |-> Sanitize(prompt)]
  /\ UNCHANGED << config, request_timestamps, quality_milestones, now, pc, task,
                  start_time, stage_calls, candidates, review_replies, reviews,
                  result, rounds, rl_calls, solves, server >>

\* What a review backend can answer: a score (in tenths, -1 for none), a
\* flaw and an improved text, each given or not, written as a JSON object, as
\* the bare members without braces, or as an object that ends in a member
\* without value; alone or within a sentence.
ResponseParts ==
  [ score : {-1, 60, 75, 100}, flaw : BOOLEAN, improved : BOOLEAN,
    shape : {"json", "bare", "broken"}, prose : BOOLEAN ]

\* the text of the answer made of these parts
ReviewResponse(parts) ==
  LET number  == CASE parts.score = 60 -> <<"6">>
                   [] parts.score = 75 -> <<"7", ".", "5">>
                   [] OTHER -> <<"1", "0">>
      members == (IF parts.score = -1 THEN << >>
                    ELSE << ScoreKey \o <<" ">> \o number >>)
                 \o (IF parts.flaw
                       THEN << FlawKey \o <<" ", "\"", "b", "a", "d", "\"">> >>
                       ELSE << >>)
                 \o (IF parts.improved
                       THEN << ImprovedKey \o <<" ", "\"", "x", "\"">> >>
                       ELSE << >>)
                 \o (IF parts.shape = "broken"
                       THEN << <<"\"", "k", "\"", ":", " ">> >>
                       ELSE << >>)
      joined  == IF members = << >> THEN << >>
                 ELSE members[1]
                        \o (IF Len(members) > 1 THEN <<",", " ">> \o members[2] ELSE << >>)
                        \o (IF Len(members) > 2 THEN <<",", " ">> \o members[3] ELSE << >>)
                        \o (IF Len(members) > 3 THEN <<",", " ">> \o members[4] ELSE << >>)
      body    == IF parts.shape = "bare" THEN joined ELSE <<"{">> \o joined \o <<"}">>
  IN  IF parts.prose THEN <<"O", "k", ":", " ">> \o body \o <<" ", ".">> ELSE body

\* self._parse_review_response(response_text)
ApplyParseReview ==
  /\ applied = NotApplied
  /\ \E parts \in ResponseParts :
       applied' = [fn |-> "_parse_review_response", parts |-> parts,
                   value |-> ParseReviewResponse(ReviewResponse(parts))]
  /\ UNCHANGED << config, request_timestamps, quality_milestones, now, pc, task,
                  start_time, stage_calls, candidates, review_replies, reviews,
                  result, rounds, rl_calls, solves, server >>

\* a new agent with a key and every model
FunctionInit ==
  /\ Init
  /\ api_key = "sk-key"
  /\ models = ALL_MODELS
  /\ num_candidates = Len(ALL_MODELS)

FunctionNext ==
  \/ ApplyShouldTrigger
  \/ ApplySanitize
  \/ ApplyParseReview

FunctionSpec == FunctionInit /\ [][FunctionNext]_vars

----------------------------------------------------------------------------
(* server.py: the routes that make the agent on first use.                 *)

\* requests handled in a run of the server
MaxServerRequests == 5

\* the routes that pass task_coordinator.ai_agent to a module, which awaits
\* its solve
CoordinatorRoutes == {"/documents/upload", "/communication/email/reply"}

\* create_ai_agent(): a new SelfLearningAIAgent, its window and log empty
CreateAiAgent == [request_timestamps |-> << >>, quality_milestones |-> << >>]

\* TaskCoordinator(ai_agent)
TaskCoordinator(agent) == [ai_agent |-> agent]

\* lines 402-404 with "global ai_agent, task_coordinator"
LazyCoordinatorSetsGlobal(s) ==
  IF s.task_coordinator = 0
    THEN [s EXCEPT !.agents = Append(@, CreateAiAgent),
                   !.ai_agent = Len(s.agents) + 1,
                   !.coordinators = Append(@, TaskCoordinator(Len(s.agents) + 1)),
                   !.task_coordinator = Len(s.coordinators) + 1]
    ELSE s

\* chat_with_agent, lines 351-355: both names are global
LazyChat(s) ==
  IF s.ai_agent = 0
    THEN [s EXCEPT !.agents = Append(@, CreateAiAgent),
                   !.ai_agent = Len(s.agents) + 1,
                   !.coordinators = Append(@, TaskCoordinator(Len(s.agents) + 1)),
                   !.task_coordinator = Len(s.coordinators) + 1]
    ELSE s

\* the other routes, lines 400-404: only task_coordinator is global, and
\* "ai_agent = create_ai_agent()" binds a local name
LazyCoordinator(s) ==
  IF s.task_coordinator = 0
    THEN [s EXCEPT !.agents = Append(@, CreateAiAgent),
                   !.coordinators = Append(@, TaskCoordinator(Len(s.agents) + 1)),
                   !.task_coordinator = Len(s.coordinators) + 1]
    ELSE s

\* the agent after one solve at time t: the rate limiter has seen a
\* Gateway call, and a winner of the given score, if any, went through
\* lines 379-383
AfterSolve(agent, t, winner) ==
  LET rl == CheckRateLimitAt(agent.request_timestamps, t)
  IN  [ request_timestamps |-> rl.request_timestamps,
        quality_milestones |->
          IF ~rl.raised /\ winner # {}
            THEN LET current_score == CHOOSE x \in winner : TRUE
                 IN  IF ShouldTriggerImprovement(agent.quality_milestones,
                                                 current_score)
                       THEN Append(agent.quality_milestones, current_score)
                       ELSE agent.quality_milestones
            ELSE agent.quality_milestones ]

\* the server s after the handler of route awaited solve on agent a
Handled(s, route, a, winner) ==
  [s EXCEPT !.agents[a] = AfterSolve(@, now, winner),
            !.requests = Append(@, route)]

ServerFrame ==
  UNCHANGED << config, request_timestamps, quality_milestones, now, pc, task,
               start_time, stage_calls, candidates, review_replies, reviews,
               result, rounds, rl_calls, applied, solves >>

\* POST /chat, lines 349-358
ChatWithAgent ==
  /\ Len(server.requests) < MaxServerRequests
  /\ \E winner \in {{}, {60}, {90}} :
       LET s == LazyChat(server)
       IN  server' = Handled(s, "/chat", s.ai_agent, winner)
  /\ ServerFrame

\* POST /documents/upload (lines 397-427), POST /communication/email/reply
\* (lines 521-535); the upload returns before the analysis when the
\* document could not be processed (lines 423-424)
CoordinatorRoute ==
  /\ Len(server.requests) < MaxServerRequests
  /\ \E route \in CoordinatorRoutes :
       LET s == LazyCoordinator(server)
       IN  \/ \E winner \in {{}, {60}, {90}} :
                server' = Handled(s, route,
                                  s.coordinators[s.task_coordinator].ai_agent,
                                  winner)
           \/ /\ route = "/documents/upload"
              /\ server' = [s EXCEPT !.requests = Append(@, route)]
  /\ ServerFrame

ServerNext ==
  \/ ChatWithAgent
  \/ CoordinatorRoute

ServerSpec == FunctionInit /\ [][ServerNext]_vars

----------------------------------------------------------------------------
(* Properties of solve.                                                    *)

ResultFields == {"solution", "score", "model", "processing_time", "confidence"}

Confidences == {"ready", "none", "low", "medium", "high"}

\* solve has returned a populated record (an exception it let out would be
\* the value of result instead)
Returned ==
  /\ ResultFields \subseteq DOMAIN result
  /\ result.score \in 0..100
  /\ result.processing_time \in 0..MaxTime
  /\ result.confidence \in Confidences

\* C1: whatever the backends answer (200, 429, another status, a timeout, a
\* malformed payload), whatever the guard and the rate limiter reject and
\* whether or not a backend is configured, every solve call that has started
\* comes to its end, and what it leaves is a record with solution, score,
\* model, processing_time and confidence, never an exception.
C1_SolveAlwaysReturns ==
  /\ [](pc = "done" => Returned)
  /\ [](Running => <>(pc = "done"))

\* C1 witness: a call that ended in the except clause of solve
C1_Witness ==
  /\ pc = "done"
  /\ Returned
  /\ result.model = "error"
  /\ "error" \in DOMAIN result

\* the texts of the candidates are pairwise different
DistinctTexts(cands) ==
  \A i, j \in 1..Len(cands) : i # j => cands[i].text # cands[j].text

\* _generate_candidates has returned (it was not skipped and did not raise)
Generated == pc \in {"review", "done"} /\ stage_calls # << >>

\* the coroutines gathered last are those of candidate generation
NoReviewCall ==
  \A i \in 1..Len(stage_calls) : stage_calls[i].prompt.kind = "generation"

\* the rate limiter admitted every coroutine gathered last
AllAdmitted ==
  \A i \in 1..Len(stage_calls) : stage_calls[i].checked

\* C2: when three backends have each returned a different non-empty text and
\* the review backend answers them with the scores 6.0, 9.0 and 7.5 (the
\* rate limiter admitting the three review calls), solve returns the
\* candidate scored 9.0, with score 9.0 and confidence "high".
C2_NineWins ==
  ( /\ pc = "done"
    /\ Len(candidates) = 3
    /\ DistinctTexts(candidates)
    /\ Len(stage_calls) = 3 /\ ~NoReviewCall /\ AllAdmitted
    /\ review_replies = << ReviewJson60, ReviewJson90, ReviewJson75 >> )
  => ( /\ Returned
       /\ result.score = 90
       /\ result.confidence = "high"
       /\ result.model = candidates[2].model )

\* C3: when candidate generation returns no candidate, solve returns score
\* 0.0 and confidence "none" (no error), and no review coroutine is created.
C3_NoCandidates ==
  (pc = "done" /\ Generated /\ candidates = << >>)
  => ( /\ Returned
       /\ result.confidence = "none"
       /\ result.score = 0
       /\ "error" \notin DOMAIN result
       /\ NoReviewCall )

\* C3 witness: three backends were asked and none gave a candidate
C3_Witness ==
  /\ pc = "done"
  /\ candidates = << >>
  /\ Len(stage_calls) = 3
  /\ \E i \in 1..3 : ~stage_calls[i].result.raised
  /\ \E i \in 1..3 : stage_calls[i].result.raised
  /\ result.confidence = "none"

\* the gathered review coroutines gave no valid review
NoValidReview ==
  LET review == PeerReviewJoin(candidates, Results)
  IN  ~review.raised /\ review.reviews = << >>

\* C4: with at least one candidate and no valid review, solve returns the
\* text of a candidate no other candidate is longer than, as it is, with
\* score 5.0 and confidence "low".
C4_LongestFallback ==
  ( /\ pc = "done"
    /\ candidates # << >>
    /\ ~NoReviewCall
    /\ NoValidReview )
  => ( /\ Returned
       /\ result.score = 50
       /\ result.confidence = "low"
       /\ \E k \in 1..Len(candidates) :
            /\ result.solution = Str(candidates[k].text)
            /\ result.model = candidates[k].model
            /\ \A j \in 1..Len(candidates) :
                 Len(candidates[j].text) <= Len(candidates[k].text) )

\* C4 witness: the longest candidate is not the first one
C4_Witness ==
  /\ pc = "done"
  /\ Len(candidates) >= 2
  /\ Len(candidates[1].text) < Len(candidates[2].text)
  /\ NoValidReview
  /\ result.confidence = "low"
  /\ result.solution = Str(candidates[2].text)

----------------------------------------------------------------------------
(* Properties of the Backend Gateway and its guards.                       *)

\* the prompts _validate_prompt must refuse, by the two tests of lines
\* 131-136 taken apart
TooLong == [p \in Prompts |-> Len(PromptText(p)) > max_prompt_length]

Suspicious ==
  [p \in Prompts |->
     \E k \in 1..Len(suspicious_patterns) :
        Search(suspicious_patterns[k], PromptText(p))]

\* C5: a coroutine of _call_openrouter posts a request only after its own
\* _check_rate_limit and _validate_prompt have both passed; a coroutine
\* whose prompt is longer than max_prompt_length or matches a suspicious
\* pattern never has a request in flight and ends by raising.
C5_GuardsBeforeNetwork ==
  \A i \in 1..Len(stage_calls) :
    LET c == stage_calls[i]
    IN  /\ (c.pc = "http" \/ c.posts > 0) => (c.checked /\ c.validated)
        /\ c.validated => c.checked
        /\ (TooLong[c.prompt] \/ Suspicious[c.prompt]) =>
             /\ c.pc # "http"
             /\ c.posts = 0
             /\ ~c.validated
             /\ c.pc = "done" =>
                  /\ c.result.raised
                  /\ c.result.type \in {"PromptInjectionException", "SecurityException"}

\* C5 witness: a generation prompt one character over the limit was
\* admitted by the rate limiter and refused by the validation, while a
\* sibling is still to start
C5_Witness ==
  /\ pc = "generate"
  /\ task = "long"
  /\ Len(stage_calls) >= 2
  /\ stage_calls[1].pc = "done"
  /\ stage_calls[1].checked
  /\ stage_calls[1].result.raised
  /\ stage_calls[1].result.msg = "Prompt too long"
  /\ stage_calls[2].pc = "created"

\* the calls of _check_rate_limit before call k are all at least a window
\* older than call k
WindowEmptyAt(k) ==
  \A j \in 1..(k - 1) : rl_calls[k].t - rl_calls[j].t >= rate_limit_window

\* C6: of rate_limit_requests + 1 calls of _check_rate_limit inside one
\* window (the window empty at the first of them), the first
\* rate_limit_requests pass and the last one raises; a call made when every
\* earlier call is at least a window old passes again.
C6_QuotaThenReset ==
  /\ \A k \in 1..Len(rl_calls) :
       ( /\ WindowEmptyAt(k)
         /\ k + rate_limit_requests <= Len(rl_calls)
         /\ rl_calls[k + rate_limit_requests].t - rl_calls[k].t < rate_limit_window )
       => /\ \A j \in k..(k + rate_limit_requests - 1) : ~rl_calls[j].raised
          /\ rl_calls[k + rate_limit_requests].raised
  /\ \A k \in 1..Len(rl_calls) : WindowEmptyAt(k) => ~rl_calls[k].raised

\* C6 witness: the quota was used up, one more call in the same window
\* raised, and a call a window later passed
C6_Witness ==
  /\ Len(rl_calls) = rate_limit_requests + 2
  /\ \A k \in 1..(rate_limit_requests + 1) : rl_calls[k].t = 0
  /\ rl_calls[rate_limit_requests + 1].raised
  /\ rl_calls[rate_limit_requests + 2].t >= rate_limit_window
  /\ ~rl_calls[rate_limit_requests + 2].raised

\* the calls of _check_rate_limit that passed, among the first k
Admitted(k) == {j \in 1..k : ~rl_calls[j].raised}

\* C7: after any calls of _check_rate_limit, passing or raising, the list
\* request_timestamps holds at most rate_limit_requests timestamps, and
\* the calls admitted in any span shorter than rate_limit_window are at
\* most rate_limit_requests.
C7_WindowBounded ==
  /\ Len(request_timestamps) <= rate_limit_requests
  /\ \A k \in Admitted(Len(rl_calls)) :
       Cardinality({j \in Admitted(k) :
                      rl_calls[k].t - rl_calls[j].t < rate_limit_window})
         <= rate_limit_requests

\* C7 witness: the list is full after a call that raised and a later call
\* that dropped old timestamps
C7_Witness ==
  /\ Len(request_timestamps) = rate_limit_requests
  /\ \E k \in 1..Len(rl_calls) : rl_calls[k].raised
  /\ Cardinality(Admitted(Len(rl_calls))) > rate_limit_requests

----------------------------------------------------------------------------
(* Properties of candidate generation and of the fan-out batches.          *)

\* C8: _generate_candidates returns at most min(num_candidates, number of
\* configured models) candidates, and the text of each of them is not empty
\* once stripped.
C8_CandidatesBounded ==
  /\ Len(candidates) <= Min(num_candidates, Len(models))
  /\ \A i \in 1..Len(candidates) :
       /\ ~candidates[i].raised
       /\ \E k \in 1..Len(candidates[i].text) :
            candidates[i].text[k] \notin Whitespace

\* C8 witness: three models were asked, one of them returned no text (the
\* dict of line 240 or a blank answer), and two candidates are left
C8_Witness ==
  /\ pc = "review"
  /\ Len(models) = 3
  /\ num_candidates = 3
  /\ Len(candidates) = 2

\* no configured model has its circuit closed
NoneClosed ==
  \A i \in 1..Len(models) :
    models[i] \in DOMAIN circuit_state /\ circuit_state[models[i]] # "closed"

\* C9: with no configured model whose circuit is closed,
\* _generate_candidates raises before it creates a coroutine, and solve
\* returns score 0.0, model "error" and the message of the exception.
C9_NoAvailableModels ==
  (pc = "done" /\ KeyConfigured /\ NoneClosed)
  => ( /\ Returned
       /\ result.score = 0
       /\ result.model = "error"
       /\ "error" \in DOMAIN result
       /\ result.error = "No available models"
       /\ stage_calls = << >>
       /\ request_timestamps = << >> )

\* C9 witness: solve was called twice on an agent without models
C9_Witness ==
  /\ pc = "done"
  /\ KeyConfigured
  /\ models = << >>
  /\ rounds = 2
  /\ result.model = "error"

\* a gathered result with usable output: a returned dict whose text holds
\* a character that is not whitespace
Usable(r) ==
  ~r.raised /\ \E k \in 1..Len(r.text) : r.text[k] \notin Whitespace

\* out is results without its exceptions and empty texts, in order
IsSelection(out, results) ==
  LET kept == {i \in 1..Len(results) : Usable(results[i])}
  IN  /\ Len(out) = Cardinality(kept)
      /\ \A i \in kept : out[Cardinality({j \in kept : j <= i})] = results[i]

\* three candidates, and what a review coroutine can give for each: two
\* exceptions and two reviews
SampleCandidates ==
  [i \in 1..Len(ALL_MODELS) |->
     Success(NewCall(ALL_MODELS[i], GenerationPrompt("plain")),
             BackendAnswer[ALL_MODELS[i]])]

ReviewScores == (ReviewJson60 :> 60) @@ (ReviewJson90 :> 90)

ReviewOutcomes ==
  { OnErrorStatus([NewCall(review_model, ReviewPrompt("plain", <<"a">>))
                     EXCEPT !.attempt = max_retries - 1]).result,
    Raise("PromptInjectionException", "Malicious pattern detected") }
    \cup { Success(NewCall(review_model, ReviewPrompt("plain", <<"a">>)), x) :
             x \in DOMAIN ReviewScores }

\* whichever review coroutines raise, _peer_review returns one review for
\* each of the others, in order, with its candidate and its score
ReviewSiblingsKept ==
  \A rs \in [1..Len(SampleCandidates) -> ReviewOutcomes] :
    LET review == PeerReviewJoin(SampleCandidates, rs)
        kept   == {i \in 1..Len(rs) : ~rs[i].raised}
    IN  /\ ~review.raised
        /\ Len(review.reviews) = Cardinality(kept)
        /\ \A i \in kept :
             LET r == review.reviews[Cardinality({j \in kept : j <= i})]
             IN  /\ r.original = Str(SampleCandidates[i].text)
                 /\ r.model = SampleCandidates[i].model
                 /\ r.score = Num(ReviewScores[rs[i].text])

----------------------------------------------------------------------------
(* Properties of the retry loop of _call_openrouter.                       *)

\* a step of the running gather that leaves coroutine i finished
Finishes(i) ==
  /\ pc' = pc
  /\ Len(stage_calls') = Len(stage_calls)
  /\ stage_calls[i].pc # "done"
  /\ stage_calls'[i].pc = "done"

\* C11: a coroutine of _call_openrouter posts at most max_retries requests,
\* whatever the backend answers: the count of posts never exceeds
\* max_retries, and every answer either ends the coroutine or is followed
\* by exactly one more post.
C11_AttemptsBounded ==
  /\ [](\A i \in 1..Len(stage_calls) :
          /\ stage_calls[i].posts <= max_retries
          /\ stage_calls[i].attempt < max_retries
          /\ stage_calls[i].pc = "http" =>
               stage_calls[i].posts = stage_calls[i].attempt + 1)
  /\ [][\A i \in 1..Len(stage_calls) :
          ( /\ pc' = pc
            /\ Len(stage_calls') = Len(stage_calls)
            /\ stage_calls[i].pc = "http"
            /\ stage_calls'[i] # stage_calls[i] )
          => \/ stage_calls'[i].pc = "done"
             \/ /\ stage_calls'[i].pc = "http"
                /\ stage_calls'[i].posts = stage_calls[i].posts + 1]_vars

\* C11 witness: the last allowed request of a coroutine is in flight while
\* a sibling has ended by raising after its own last attempt
C11_Witness ==
  \E i, j \in 1..Len(stage_calls) :
    /\ stage_calls[i].pc = "http"
    /\ stage_calls[i].posts = max_retries
    /\ stage_calls[j].pc = "done"
    /\ stage_calls[j].result.raised
    /\ stage_calls[j].result.type = "ClientError"

\* C12: an HTTP 200 answer without choices ends the coroutine at once with
\* the ValueError, whatever attempts remain.
C12_MalformedNotRetried ==
  [][\A i \in 1..Len(stage_calls) :
       HttpMalformed(i) =>
         /\ stage_calls'[i].pc = "done"
         /\ stage_calls'[i].result.raised
         /\ stage_calls'[i].result.type = "ValueError"]_vars

\* the dict of line 240: empty text, nothing raised
IsSentinel(r) == ~r.raised /\ r.text = << >> /\ "error" \in DOMAIN r

\* C13: a coroutine of _call_openrouter ends with the dict of line 240
\* exactly when its last attempt is answered with HTTP 429, and no such
\* dict is among the candidates.
C13_SentinelOn429 ==
  /\ [](\A k \in 1..Len(candidates) : ~IsSentinel(candidates[k]))
  /\ [][\A i \in 1..Len(stage_calls) :
          Finishes(i) =>
            ( IsSentinel(stage_calls'[i].result)
                <=> ( /\ Http429(i)
                      /\ stage_calls[i].attempt = max_retries - 1 ) )]_vars

\* C13 witness: every generation coroutine ended with the dict of line
\* 240 and solve returned with no candidate
C13_Witness ==
  /\ pc = "done"
  /\ Len(stage_calls) >= 2
  /\ NoReviewCall
  /\ \A i \in 1..Len(stage_calls) : IsSentinel(stage_calls[i].result)
  /\ candidates = << >>
  /\ result.confidence = "none"

\* C14: after an answer with another status than 200 and 429, or a timeout,
\* the coroutine posts again if an attempt is left, and on its last attempt
\* raises the ClientError or the TimeoutError; it returns nothing.
C14_RetryThenRaise ==
  [][\A i \in 1..Len(stage_calls) :
       (HttpErrorStatus(i) \/ HttpTimeout(i)) =>
         IF stage_calls[i].attempt < max_retries - 1
           THEN /\ stage_calls'[i].pc = "http"
                /\ stage_calls'[i].attempt = stage_calls[i].attempt + 1
                /\ stage_calls'[i].posts = stage_calls[i].posts + 1
           ELSE /\ stage_calls'[i].pc = "done"
                /\ stage_calls'[i].result.raised
                /\ stage_calls'[i].result.type =
                     (IF HttpTimeout(i) THEN "TimeoutError" ELSE "ClientError")]_vars

\* C14 witness: one coroutine has raised the TimeoutError of its last
\* attempt and another the ClientError of its last attempt
C14_Witness ==
  \E i, j \in 1..Len(stage_calls) :
    /\ stage_calls[i].pc = "done" /\ stage_calls[i].result.raised
    /\ stage_calls[i].result.type = "TimeoutError"
    /\ stage_calls[j].pc = "done" /\ stage_calls[j].result.raised
    /\ stage_calls[j].result.type = "ClientError"

----------------------------------------------------------------------------
(* Properties of the review and selection stages.                          *)

\* the review coroutines that returned one of the answers xs
Answered(xs) ==
  {i \in 1..Len(stage_calls) :
     ~stage_calls[i].result.raised /\ stage_calls[i].result.text \in xs}

\* C15: whatever the list of candidates (with or without empty texts),
\* each review _peer_review returns carries the text of a candidate that
\* was put in the prompt of a review coroutine that returned, and the model
\* of that candidate.
C15_ReviewPairsCandidate ==
  pc = "done" =>
    \A k \in 1..Len(reviews) :
      \E i \in 1..Len(stage_calls), j \in 1..Len(candidates) :
        /\ ~stage_calls[i].result.raised
        /\ stage_calls[i].prompt.solution = candidates[j].text
        /\ reviews[k].original = Str(candidates[j].text)
        /\ reviews[k].model = candidates[j].model

AllWithText ==
  \A j \in 1..Len(candidates) : candidates[j].text # << >>

\* C17: an answer that is not JSON, or has no score, or a score that is a
\* string or null, costs at most its own review: _peer_review does not
\* raise, and the answers with a valid score all give a review.
C17_BadReviewOnlyDropped ==
  (pc = "done" /\ candidates # << >> /\ AllWithText)
  => /\ "error" \notin DOMAIN result
     /\ Len(reviews) >= Cardinality(Answered({ReviewJson70, ReviewJsonTen}))

\* the first position of reviews holding the greatest score
FirstBest ==
  CHOOSE k \in 1..Len(reviews) :
    /\ \A j \in 1..Len(reviews) : ScoreOf(reviews[j]) <= ScoreOf(reviews[k])
    /\ \A j \in 1..(k - 1) : ScoreOf(reviews[j]) < ScoreOf(reviews[k])

\* C18: the winner is a review of greatest score, and of the reviews with
\* that score the first in the order of the candidates.
C18_FirstOfTheBest ==
  (pc = "done" /\ reviews # << >>)
  => /\ result.score = ScoreOf(reviews[FirstBest])
     /\ result.model = reviews[FirstBest].model
     /\ result.solution
          = Get(reviews[FirstBest], "improved", reviews[FirstBest].original)

\* C18 witness: the second and third of three reviews share the greatest
\* score, and the second won
C18_Witness ==
  /\ pc = "done"
  /\ Len(reviews) = 3
  /\ ScoreOf(reviews[1]) < ScoreOf(reviews[2])
  /\ ScoreOf(reviews[2]) = ScoreOf(reviews[3])
  /\ reviews[2].model # reviews[3].model
  /\ result.model = reviews[2].model

\* the greatest score among the reviews
BestScore == ScoreOf(reviews[FirstBest])

\* C19: the confidence solve returns follows the path it took: "high" for
\* a winner scoring above 7.0 and only then, "medium" for a winner scoring
\* 7.0 or less, "low" when there are candidates and no review, "none"
\* when there is no candidate.
C19_ConfidenceByPath ==
  (pc = "done" /\ "error" \notin DOMAIN result)
  => /\ result.confidence = "high" <=> (reviews # << >> /\ BestScore > 70)
     /\ result.confidence = "medium" <=> (reviews # << >> /\ BestScore <= 70)
     /\ result.confidence = "low" <=> (candidates # << >> /\ reviews = << >>)
     /\ result.confidence = "none" <=> candidates = << >>

\* C19 witness: the winner scored exactly 7.0 and the confidence is
\* "medium"
C19_Witness ==
  /\ pc = "done"
  /\ reviews # << >>
  /\ BestScore = 70
  /\ result.score = 70
  /\ result.confidence = "medium"

\* C20: with no milestone yet, _should_trigger_improvement is true for
\* every score, and the first winning score of the agent becomes the first
\* milestone even when it is 5.0 or less.
C20_FirstScoreIsMilestone ==
  /\ \A score \in 0..100 : ShouldTriggerImprovement(<< >>, score)
  /\ [][ ( /\ pc = "review"
           /\ pc' = "done"
           /\ quality_milestones = << >>
           /\ reviews' # << >> )
         => quality_milestones' = << result'.score >> ]_vars

\* C20 witness: the first winner of the agent scored 0 and is a milestone
C20_Witness ==
  /\ pc = "done"
  /\ rounds = 1
  /\ reviews # << >>
  /\ result.score = 0
  /\ quality_milestones = << 0 >>

----------------------------------------------------------------------------
\* the greatest of the last ten entries of a non-empty log
BestOfLastTen(log) ==
  CHOOSE m \in Range(log) :
    /\ \E i \in 1..Len(log) : i > Len(log) - 10 /\ log[i] = m
    /\ \A i \in 1..Len(log) : i > Len(log) - 10 => log[i] <= m

\* C21: with a non-empty milestone log, _should_trigger_improvement(score) is
\* true exactly when (score - m) / (m + 0.00001) > 0.15 and score > 5.0, m the
\* greatest of the last ten milestones only; with the log [6.0, 7.0] the
\* score 8.5 triggers and 7.5 does not.  (Scores in tenths: the quotient
\* exceeds 0.15 iff 1000000 (s - m) > 150000 m + 15.)
C21_TriggerRule ==
  /\ ShouldTriggerImprovement(<<60, 70>>, 85)
  /\ ~ShouldTriggerImprovement(<<60, 70>>, 75)
  /\ applied.fn = "_should_trigger_improvement" =>
       LET m == BestOfLastTen(applied.log)
       IN  applied.value <=>
             /\ 1000000 * (applied.score - m) > 150000 * m + 15
             /\ applied.score > 50

\* a log whose best entry is older than the last ten: a score below that
\* entry triggers
C21_Witness ==
  /\ applied.fn = "_should_trigger_improvement"
  /\ Len(applied.log) = 11
  /\ applied.log[1] = 100
  /\ applied.score = 85
  /\ applied.value

----------------------------------------------------------------------------
\* C22: the milestone log only grows, by one entry at its end, and only when
\* solve selects a winner whose score _should_trigger_improvement accepts;
\* the ready, no-candidates, no-reviews and error returns leave it as it was.
C22_MilestonesAppendOnly ==
  [][ \/ quality_milestones' = quality_milestones
      \/ /\ pc = "review"
         /\ pc' = "done"
         /\ reviews' # << >>
         /\ result'.confidence \in {"medium", "high"}
         /\ result'.model # "error"
         /\ quality_milestones' = Append(quality_milestones, result'.score)
         /\ \/ quality_milestones = << >>
            \/ /\ 1000000 * (result'.score - BestOfLastTen(quality_milestones))
                     > 150000 * BestOfLastTen(quality_milestones) + 15
               /\ result'.score > 50 ]_vars

\* two winners in a row were logged, the second after the first
C22_Witness ==
  /\ pc = "done"
  /\ rounds = 2
  /\ quality_milestones = << 70, 100 >>
  /\ result.score = 100

----------------------------------------------------------------------------
\* C23: the circuit of every backend is "closed" in every reachable state,
\* whatever failed before, no step changes circuit_state, and the backends
\* _get_active_models returns are the configured list.
C23_CircuitsStayClosed ==
  /\ [] ( /\ \A m \in DOMAIN circuit_state : circuit_state[m] = "closed"
          /\ DOMAIN circuit_state = Range(models) \cup {review_model}
          /\ GetActiveModels(models, circuit_state) = models )
  /\ [][circuit_state' = circuit_state]_vars

\* two rounds in which every generation call failed in transport, on an
\* agent with three models
C23_Witness ==
  /\ pc = "done"
  /\ rounds = 2
  /\ Len(models) = 3
  /\ Len(stage_calls) = 3
  /\ \A i \in 1..Len(stage_calls) :
       /\ stage_calls[i].result.raised
       /\ stage_calls[i].result.type \in {"ClientError", "TimeoutError"}

----------------------------------------------------------------------------
\* C24: _sanitize_prompt is idempotent: sanitising what it returned returns
\* the same text.
C24_SanitizeIdempotent ==
  applied.fn = "_sanitize_prompt" => Sanitize(applied.value) = applied.value

\* a prompt all three steps changed: the tag between two runs of five
\* newlines went, the ten newlines left became five, and the cut at
\* max_prompt_length kept three of them
C24_Witness ==
  /\ applied.fn = "_sanitize_prompt"
  /\ applied.prompt = [plain |-> max_prompt_length - 3,
                       rest |-> Repeat("\n", 5) \o <<"<", "b", ">">> \o Repeat("\n", 5)]
  /\ applied.value = [plain |-> max_prompt_length - 3, rest |-> Repeat("\n", 3)]

----------------------------------------------------------------------------
\* C25: when the object embedded in a review response parses as JSON,
\* _parse_review_response returns its fields as they are, with no field
\* added; otherwise it finds score, flaw and improved each on its own in the
\* text, and a field that is not found is 5.0, "NONE" and "".
C25_ParsedOrExtracted ==
  applied.fn = "_parse_review_response" =>
    LET parts == applied.parts
        given == (IF parts.score = -1 THEN {} ELSE {"score"})
                   \cup (IF parts.flaw THEN {"flaw"} ELSE {})
                   \cup (IF parts.improved THEN {"improved"} ELSE {})
        field == [ score    |-> Num(parts.score),
                   flaw     |-> Str(<<"b", "a", "d">>),
                   improved |-> Str(<<"x">>) ]
        default == [ score    |-> Num(50),
                     flaw     |-> Str(<<"N", "O", "N", "E">>),
                     improved |-> Str(<< >>) ]
    IN  IF parts.shape = "json"
          THEN applied.value = [k \in given |-> field[k]]
          ELSE applied.value =
                 [k \in {"score", "flaw", "improved"} |->
                    IF k \in given THEN field[k] ELSE default[k]]

\* an object that does not parse, within a sentence, holding a score only:
\* the score is found and the two other fields are the defaults
C25_Witness ==
  /\ applied.fn = "_parse_review_response"
  /\ applied.parts = [score |-> 75, flaw |-> FALSE, improved |-> FALSE,
                      shape |-> "broken", prose |-> TRUE]
  /\ applied.value = [ score |-> Num(75), flaw |-> Str(<<"N", "O", "N", "E">>),
                       improved |-> Str(<< >>) ]

----------------------------------------------------------------------------
\* C26: _check_rate_limit counts and appends in one step of the scheduler,
\* so however the Gateway coroutines of concurrent fan-outs and solve rounds
\* interleave, no admitted call is ever missing from the window (none is
\* between its check and its append) and no more than rate_limit_requests
\* calls are admitted within any rate_limit_window.
C26_NoRaceOnQuota ==
  /\ \A t \in 0..now :
       now - t < rate_limit_window =>
         Cardinality({i \in 1..Len(request_timestamps) : request_timestamps[i] = t})
           = Cardinality({k \in 1..Len(rl_calls) :
                            ~rl_calls[k].raised /\ rl_calls[k].t = t})
  /\ \A k \in 1..Len(rl_calls) :
       Cardinality({j \in 1..k : /\ ~rl_calls[j].raised
                                 /\ rl_calls[k].t - rl_calls[j].t < rate_limit_window})
         <= rate_limit_requests

\* two rounds in their generation stage at once, their calls interleaved:
\* the quota is used up and a call of each round was made
C26_Witness ==
  /\ solves[1].pc = "generate"
  /\ solves[2].pc = "generate"
  /\ solves[1].fan_out = 0
  /\ solves[2].fan_out = 0
  /\ solves[1].admitted >= 1
  /\ solves[2].admitted >= 1
  /\ \E k \in 1..Len(rl_calls) : rl_calls[k].raised

\* C28: solve rounds running at once share nothing but the rate limit
\* window and the circuit states: the milestone decision of a round is the
\* one the log it found when it started gives, whatever another round
\* appended meanwhile.
C28_RoundsIsolated ==
  \A r \in 1..MaxConcurrent :
    (solves[r].pc = "done" /\ solves[r].score >= 0)
      => (solves[r].triggered
            <=> ShouldTriggerImprovement(solves[r].seen, solves[r].score))

----------------------------------------------------------------------------
\* a Gateway coroutine that is over: it returned or raised
Completed(c) == c.pc = "done" /\ c.result # NoResult

\* C27: within a round, the review coroutines exist only once every
\* generation coroutine is over (it returned, raised, or gave up after its
\* retries), and solve selects its winner, or falls back, only once every
\* review coroutine is over.
C27_StagesJoined ==
  /\ [] ( pc = "generate" =>
            \A i \in 1..Len(stage_calls) : stage_calls[i].prompt.kind = "generation" )
  /\ [][ ( /\ \E i \in 1..Len(stage_calls') : stage_calls'[i].prompt.kind = "review"
           /\ \A i \in 1..Len(stage_calls) : stage_calls[i].prompt.kind # "review" )
         => /\ pc = "generate"
            /\ pc' = "review"
            /\ \A i \in 1..Len(stage_calls) : Completed(stage_calls[i])
            /\ \A i \in 1..Len(stage_calls') : stage_calls'[i].pc = "created" ]_vars
  /\ [][ (pc = "generate" /\ pc' # "generate")
         => \A i \in 1..Len(stage_calls) : Completed(stage_calls[i]) ]_vars
  /\ [][ (pc = "review" /\ pc' # "review")
         => /\ pc' = "done"
            /\ \A i \in 1..Len(stage_calls) :
                 /\ stage_calls[i].prompt.kind = "review"
                 /\ Completed(stage_calls[i]) ]_vars

\* a round whose three generation coroutines ended differently (one of them
\* raising) before two reviews were made, and which returned after both
C27_Witness ==
  /\ pc = "done"
  /\ num_candidates = 3
  /\ Len(candidates) = 2
  /\ Len(stage_calls) = 2
  /\ \A i \in 1..Len(stage_calls) :
       stage_calls[i].prompt.kind = "review" /\ Completed(stage_calls[i])
  /\ result.confidence = "low"

\* C30: the generation coroutines of a round are one for each of
\* min(num_candidates, number of models) pairwise distinct active models, and
\* the candidates returned come from pairwise distinct models among them.
C30_DistinctBackends ==
  /\ pc = "generate" =>
       /\ Len(stage_calls) = Min(num_candidates, Len(models))
       /\ \A i \in 1..Len(stage_calls) :
            /\ stage_calls[i].prompt.kind = "generation"
            /\ \E k \in 1..Len(models) :
                 models[k] = stage_calls[i].model /\ circuit_state[models[k]] = "closed"
       /\ \A i, j \in 1..Len(stage_calls) :
            i # j => stage_calls[i].model # stage_calls[j].model
  /\ pc \in {"review", "done"} =>
       /\ \A i, j \in 1..Len(candidates) :
            i # j => candidates[i].model # candidates[j].model
       /\ \A i \in 1..Len(candidates) : \E k \in 1..Len(models) : models[k] = candidates[i].model

\* three candidates of three models, in another order than the configured
C30_Witness ==
  /\ pc = "review"
  /\ Len(candidates) = 3
  /\ candidates[1].model = ALL_MODELS[3]
  /\ candidates[3].model = ALL_MODELS[1]

----------------------------------------------------------------------------
\* how often x is in the list ts
Count(ts, x) == Cardinality({i \in 1..Len(ts) : ts[i] = x})

\* C29: a call of _check_rate_limit that raises appends nothing: it leaves
\* in the window exactly the timestamps younger than rate_limit_window, so
\* whether a call is rejected depends on the admitted calls of the last
\* rate_limit_window only, never on the calls rejected before it.
C29_RejectedNotRecorded ==
  /\ [] ( \A k \in 1..Len(rl_calls) :
            rl_calls[k].raised <=>
              Cardinality({j \in 1..(k - 1) :
                             /\ ~rl_calls[j].raised
                             /\ rl_calls[k].t - rl_calls[j].t < rate_limit_window})
                >= rate_limit_requests )
  /\ [][ ( /\ Len(rl_calls') = Len(rl_calls) + 1
           /\ rl_calls'[Len(rl_calls')].raised )
         => \A x \in 0..MaxTime :
              Count(request_timestamps', x) =
                (IF rl_calls'[Len(rl_calls')].t - x < rate_limit_window
                   THEN Count(request_timestamps, x) ELSE 0) ]_vars

\* two calls in a row were rejected and the window holds the admitted
\* calls only
C29_Witness ==
  /\ Len(rl_calls) = rate_limit_requests + 2
  /\ rl_calls[rate_limit_requests + 1].raised
  /\ rl_calls[rate_limit_requests + 2].raised
  /\ Len(request_timestamps) = rate_limit_requests

----------------------------------------------------------------------------
(* Properties of the guards within a round.                                *)

\* the coroutines of the review stage
ReviewCoroutines ==
  {i \in 1..Len(stage_calls) : stage_calls[i].prompt.kind = "review"}

\* what follows from no review coroutine ever returning: _peer_review
\* returns [], a round with a candidate ends in the fallback, and no
\* milestone is ever logged
OnlyFallback ==
  /\ \A i \in ReviewCoroutines : stage_calls[i].pc # "http" /\ stage_calls[i].posts = 0
  /\ (pc = "done" /\ candidates # << >>) =>
       /\ reviews = << >>
       /\ result.confidence = "low"
       /\ result.score = 50
  /\ quality_milestones = << >>

\* C31 as stated: the rubric of the review prompt holds "Evaluate", which
\* the pattern "eval" matches whatever the case, so every review coroutine
\* raises the PromptInjectionException before any request, _peer_review
\* returns [], and every round with a candidate ends in the low-confidence
\* fallback.
C31_ReviewAlwaysInjection ==
  /\ \A i \in ReviewCoroutines :
       stage_calls[i].pc = "done" =>
         /\ stage_calls[i].result.raised
         /\ stage_calls[i].result.type = "PromptInjectionException"
  /\ OnlyFallback

\* C31 amended: every review prompt fails _validate_prompt, so every review
\* coroutine raises before any request: the PromptInjectionException when
\* the rate limiter admitted it, the SecurityException of the rate limiter,
\* which runs first, when it did not; the consequences are as stated.
C31_ReviewNeverPosts ==
  /\ \A p \in Prompts :
       p.kind = "review" =>
         /\ PromptVerdict[p].raised
         /\ PromptVerdict[p].type = "PromptInjectionException"
  /\ \A i \in ReviewCoroutines :
       stage_calls[i].pc = "done" =>
         /\ stage_calls[i].result.raised
         /\ stage_calls[i].result.type =
              (IF stage_calls[i].checked THEN "PromptInjectionException"
                                         ELSE "SecurityException")
  /\ OnlyFallback

\* a round ended in the fallback after one review coroutine raised the
\* PromptInjectionException and another the SecurityException
C31_Witness ==
  /\ pc = "done"
  /\ result.confidence = "low"
  /\ \E i, j \in ReviewCoroutines :
       /\ stage_calls[i].result.type = "PromptInjectionException"
       /\ stage_calls[j].result.type = "SecurityException"

----------------------------------------------------------------------------
\* coroutine i runs from its creation to its end within this step, raising
\* an exception of the given type
StartsAndRaises(i, type) ==
  /\ i <= Len(stage_calls')
  /\ stage_calls[i].pc = "created"
  /\ stage_calls'[i].pc = "done"
  /\ stage_calls'[i].result.raised
  /\ stage_calls'[i].result.type = type

\* C32: _call_openrouter calls _check_rate_limit before _validate_prompt, so
\* a coroutine whose prompt _validate_prompt rejects has passed the rate
\* limiter and added its timestamp to the window, though it posts nothing.
C32_RejectedPromptCounts ==
  [][ \A i \in 1..Len(stage_calls) :
        StartsAndRaises(i, "PromptInjectionException")
          => /\ stage_calls'[i].checked
             /\ ~stage_calls'[i].validated
             /\ stage_calls'[i].posts = 0
             /\ request_timestamps' # << >>
             /\ request_timestamps'[Len(request_timestamps')] = now'
             /\ Count(request_timestamps', now') = Count(request_timestamps, now') + 1
             /\ Len(request_timestamps') <= rate_limit_requests ]_vars

\* the first coroutine of a round was rejected for its prompt and took the
\* last place of the window, so that the second was rejected by the limiter
C32_Witness ==
  /\ task = "sudo"
  /\ Len(stage_calls) >= 2
  /\ stage_calls[1].pc = "done"
  /\ stage_calls[1].result.raised
  /\ stage_calls[1].result.type = "PromptInjectionException"
  /\ stage_calls[2].pc = "done"
  /\ stage_calls[2].result.raised
  /\ stage_calls[2].result.type = "SecurityException"

----------------------------------------------------------------------------
\* the coroutines that take their first step (lines 162-190) in this step
Entering ==
  {i \in 1..Len(stage_calls) :
     /\ i <= Len(stage_calls')
     /\ stage_calls[i].pc = "created"
     /\ stage_calls'[i].pc # "created"}

\* the coroutines whose retry loop posts once more in this step
Reposting ==
  {i \in 1..Len(stage_calls) :
     /\ i <= Len(stage_calls')
     /\ stage_calls[i].pc = "http"
     /\ stage_calls'[i].pc = "http"
     /\ stage_calls'[i].posts = stage_calls[i].posts + 1}

\* C33: a coroutine the rate limiter admits adds exactly one timestamp to
\* the window, in its first step; the posts of its retry loop add none.  A
\* round thus takes at most one place of the window per coroutine (the
\* chosen models, then the candidates), while each coroutine may post up
\* to max_retries times.
C33_OneTimestampPerCall ==
  /\ [](\A i \in 1..Len(stage_calls) : stage_calls[i].posts <= max_retries)
  /\ [](pc = "generate" => Len(stage_calls) = Min(num_candidates, Len(models)))
  /\ [](pc = "review" => Len(stage_calls) = Len(candidates))
  /\ [][ /\ Cardinality(Entering) <= 1
         /\ \A i \in Entering :
              IF stage_calls'[i].checked
                THEN /\ Len(request_timestamps') <= Len(request_timestamps) + 1
                     /\ Count(request_timestamps', now')
                          = Count(request_timestamps, now') + 1
                ELSE /\ Len(request_timestamps') <= Len(request_timestamps)
                     /\ Count(request_timestamps', now')
                          = Count(request_timestamps, now')
         /\ Entering = {} => request_timestamps' = request_timestamps
         /\ Reposting # {} => request_timestamps' = request_timestamps ]_vars

\* the only coroutine of the first round posts for the last time of its
\* retry loop, and the window holds its one timestamp
C33_Witness ==
  /\ pc = "generate"
  /\ Len(stage_calls) = 1
  /\ stage_calls[1].pc = "http"
  /\ stage_calls[1].posts = max_retries
  /\ Len(request_timestamps) = 1

----------------------------------------------------------------------------
StrictlyIncreasing(log) == \A i \in 1..(Len(log) - 1) : log[i] < log[i + 1]

\* strictly increasing logs of up to twelve entries
IncreasingLogs ==
  { [i \in 1..n |-> b + k * i] : n \in 1..12, b \in {0, 4, 40}, k \in {1, 5} }

\* C34: with the rounds of several solve calls interleaved in any way, the
\* milestone log is strictly increasing, so the best of its last ten
\* entries is its last entry; lines 381-383 test and append in one step,
\* and a score appended to an increasing log exceeds its last entry.
C34_MilestonesIncrease ==
  /\ improvement_threshold >= 0
  /\ StrictlyIncreasing(quality_milestones)
  /\ quality_milestones # << >>
       => MaxOf(LastN(quality_milestones, 10))
            = quality_milestones[Len(quality_milestones)]
  /\ \A r \in 1..MaxConcurrent :
       solves[r].pc = "done" /\ solves[r].triggered
         => \E i \in 1..Len(quality_milestones) :
              quality_milestones[i] = solves[r].score
  /\ \A log \in IncreasingLogs :
     \A s \in {0, 50, 51, 100, log[Len(log)], log[Len(log)] + 1,
               log[Len(log)] + 20} :
       ShouldTriggerImprovement(log, s)
         => /\ s > log[Len(log)]
            /\ StrictlyIncreasing(Append(log, s))

\* two interleaved rounds have both appended: the round that ended first
\* logged 6.0 and the other logged 9.0 after it
C34_Witness ==
  /\ quality_milestones = << 60, 90 >>
  /\ \A r \in 1..MaxConcurrent : solves[r].pc = "done" /\ solves[r].triggered

----------------------------------------------------------------------------
\* the review coroutines that left the retry loop by line 240
EmptySentinels ==
  {i \in 1..Len(stage_calls) :
     /\ stage_calls[i].pc = "done"
     /\ stage_calls[i].result = AllRetriesFailed(stage_calls[i])}

\* the review that lines 297-302 make of candidate i and the text ""
DefaultReview(i) ==
  [ original |-> Str(candidates[i].text),
    model    |-> candidates[i].model,
    reviewer |-> review_model,
    score    |-> Num(50),
    flaw     |-> Str(<<"N", "O", "N", "E">>),
    improved |-> Str(<< >>) ]

\* C35: a review coroutine that returns the dictionary of line 240, its
\* text empty, is kept by _peer_review: the fallback of
\* _parse_review_response makes of it a review with score 5.0, flaw "NONE"
\* and improved "", which _validate_review_scores accepts and which takes
\* part in the selection of the winner.
C35_SentinelIsReviewed ==
  /\ ParseReviewResponse(<< >>)
       = [score |-> Num(50), flaw |-> Str(<<"N", "O", "N", "E">>),
          improved |-> Str(<< >>)]
  /\ (pc = "done" /\ candidates # << >>
        /\ ~PeerReviewJoin(candidates, Results).raised)
       => \A i \in EmptySentinels :
            /\ \E k \in 1..Len(reviews) : reviews[k] = DefaultReview(i)
            /\ result.confidence \in {"medium", "high"}
            /\ result.score >= 50
            /\ (\A k \in 1..Len(reviews) : ScoreOf(reviews[k]) < 50)
                 => /\ result.score = 50
                    /\ result.solution = Str(<< >>)

\* three candidates: one review had no score, one ended with the
\* dictionary of line 240 and one raised; the empty review won the round
C35_Witness ==
  /\ pc = "done"
  /\ EmptySentinels # {}
  /\ Len(reviews) = 2
  /\ \E k \in 1..Len(reviews) : ScoreOf(reviews[k]) = 0
  /\ \E i \in 1..Len(stage_calls) : stage_calls[i].result.raised
  /\ result.score = 50
  /\ result.solution = Str(<< >>)

----------------------------------------------------------------------------
\* every generation coroutine of the round was stopped by lines 162-163
AllRejected ==
  /\ stage_calls # << >>
  /\ \A i \in 1..Len(stage_calls) :
       /\ stage_calls[i].prompt.kind = "generation"
       /\ stage_calls[i].pc = "done"
       /\ ~stage_calls[i].validated
       /\ stage_calls[i].result.raised
       /\ stage_calls[i].result.type \in {"SecurityException", "PromptInjectionException"}

\* C36: when _check_rate_limit or _validate_prompt stops every generation
\* coroutine of a round, gather hands the exceptions to the loop of lines
\* 265-270, which passes over them: no coroutine has posted, and solve
\* returns the result of lines 357-363 (confidence "none", score 0.0, model
\* "fallback"), without an "error" key and without a review stage.
C36_RejectionsAbsorbed ==
  /\ [](\A i \in 1..Len(stage_calls) :
          (stage_calls[i].pc = "http" \/ stage_calls[i].posts > 0)
            => stage_calls[i].validated)
  /\ [][\A i \in 1..Len(stage_calls) :
          (/\ i <= Len(stage_calls')
           /\ stage_calls[i].pc # "done"
           /\ stage_calls'[i].pc = "done"
           /\ ~stage_calls'[i].validated)
            => /\ stage_calls[i].pc = "created"
               /\ stage_calls'[i].posts = 0
               /\ stage_calls'[i].result.raised]_vars
  /\ []((pc = "done" /\ AllRejected)
          => /\ result = NoCandidatesResult(result.processing_time)
             /\ result.confidence = "none"
             /\ result.score = 0
             /\ result.model = "fallback"
             /\ "error" \notin DOMAIN result
             /\ candidates = << >>
             /\ reviews = << >>)

\* a round on a task containing "sudo": the first coroutine was stopped by
\* _validate_prompt, the next by _check_rate_limit, and solve has returned
C36_Witness ==
  /\ pc = "done"
  /\ AllRejected
  /\ task = "sudo"
  /\ \E i, j \in 1..Len(stage_calls) :
       /\ stage_calls[i].result.type = "PromptInjectionException"
       /\ stage_calls[j].result.type = "SecurityException"
  /\ result.model = "fallback"

----------------------------------------------------------------------------
\* C37: in the result of lines 390-398 the solution is the value under the
\* winner's "improved" key whenever the winner has that key, the empty
\* string included; the candidate's own text is returned only when the key
\* is missing.  An empty solution thus comes from a round that had
\* candidates and reviews.
C37_ImprovedEvenIfEmpty ==
  (pc = "done" /\ reviews # << >>)
  => LET winner == reviews[FirstBest]
     IN  /\ "original" \in DOMAIN winner
         /\ candidates # << >>
         /\ IF "improved" \in DOMAIN winner
              THEN /\ result.solution = winner.improved
                   /\ winner.improved = Str(<< >>) => result.solution = Str(<< >>)
              ELSE result.solution = winner.original

\* the answer {"score": 8.0, "flaw": } is not JSON, the fallback finds its
\* score and no improved text, and the round returns "" with confidence
\* "high"
C37_Witness ==
  /\ pc = "done"
  /\ candidates # << >>
  /\ reviews # << >>
  /\ "improved" \in DOMAIN reviews[FirstBest]
  /\ result.solution = Str(<< >>)
  /\ result.score = 80
  /\ result.confidence = "high"

----------------------------------------------------------------------------
\* the agent the coordinator holds, 0 when there is no coordinator
CoordinatorAgent(s) ==
  IF s.task_coordinator = 0 THEN 0
  ELSE s.coordinators[s.task_coordinator].ai_agent

====
